---- MODULE Spec2Model ----
(***************************************************************************)
(* Serialization and deserialization of the OpenAPI 3.0 document types of  *)
(* rweb-openapi (src/v3_0/schema.rs, src/v3_0/components.rs).              *)
(*                                                                         *)
(* The types derive Serialize/Deserialize.  Every type is written here as  *)
(* a descriptor transcribed from its declaration (fields in declaration    *)
(* order, serde attributes kept), and the two operators Deserialize and    *)
(* Serialize interpret a descriptor the way the derived code does.         *)
(***************************************************************************)
EXTENDS Integers, Sequences, FiniteSets, TLC

VARIABLES ty, value, json, result, output, pc

vars == <<ty, value, json, result, output, pc>>

(***************************************************************************)
(* JSON data model (serde_json::Value).  An object is a sequence of        *)
(* <<key, value>> entries in document order.  Each kind keeps its payload  *)
(* under a field of its own name.                                          *)
(***************************************************************************)
JNull == [j |-> "null"]
JBool(b) == [j |-> "bool", bool |-> b]
JNum(n) == [j |-> "num", num |-> n]
JStr(s) == [j |-> "str", str |-> s]
JArr(a) == [j |-> "arr", arr |-> a]
JObj(es) == [j |-> "obj", obj |-> es]

HasKey(es, key) == \E i \in DOMAIN es : es[i][1] = key

FirstIdx(es, key) ==
    CHOOSE i \in DOMAIN es : es[i][1] = key /\ \A h \in DOMAIN es : es[h][1] = key => i <= h

LastIdx(es, key) ==
    CHOOSE i \in DOMAIN es : es[i][1] = key /\ \A h \in DOMAIN es : es[h][1] = key => h <= i

Get(es, key) == es[FirstIdx(es, key)][2]

Min(S) == CHOOSE x \in S : \A y \in S : x <= y

\* A value of an enum: the variant's name, and the payload under that name.
Variant(name, payload) == [tag |-> name] @@ (name :> payload)

\* Option<T> and Result<T, E>
None == <<>>
Some(x) == <<x>>
Ok(x) == [ok |-> TRUE, val |-> x]
Err(kind, where) == [ok |-> FALSE, err |-> kind, at |-> where]

(***************************************************************************)
(* Type descriptors.                                                       *)
(***************************************************************************)
TStr == [k |-> "str"]
TBool == [k |-> "bool"]
TUsize == [k |-> "usize"]
TValue == [k |-> "value"]
TOpt(t) == [k |-> "opt", of |-> t]
TVec(t) == [k |-> "vec", of |-> t]
TMap(t) == [k |-> "map", of |-> t]
TNamed(n) == [k |-> "named", name |-> n]
TUrl == [k |-> "url"]

\* A struct field: Rust name, serialized key, type, skip_serializing_if,
\* flatten, and the module named by serialize_with / deserialize_with.
Field(name, key, t, skip) ==
    [name |-> name, key |-> key, ty |-> t, skip |-> skip, flatten |-> FALSE, with |-> ""]

Flatten(name, t, skip) ==
    [name |-> name, key |-> "", ty |-> t, skip |-> skip, flatten |-> TRUE, with |-> ""]

StructVariant(name, fields) == [name |-> name, shape |-> "struct", fields |-> fields, ty |-> TStr]
NewtypeVariant(name, t) == [name |-> name, shape |-> "newtype", fields |-> <<>>, ty |-> t]

\* A variant of an internally tagged enum: Rust name, tag value, fields.
TaggedVariant(name, rename, fields) ==
    [name |-> name, rename |-> rename, shape |-> "struct", fields |-> fields, ty |-> TStr]

Struct(name, fields) == [k |-> "struct", name |-> name, fields |-> fields]
Tagged(name, tag, variants) == [k |-> "tagged", name |-> name, tag |-> tag, variants |-> variants]
Untagged(name, variants) == [k |-> "untagged", name |-> name, variants |-> variants]
UnitEnum(name, variants) == [k |-> "unit_enum", name |-> name, variants |-> variants]

Type ==
    UnitEnum("Type", << [name |-> "String", rename |-> "string"],
                        [name |-> "Number", rename |-> "number"],
                        [name |-> "Integer", rename |-> "integer"],
                        [name |-> "Boolean", rename |-> "boolean"],
                        [name |-> "Array", rename |-> "array"],
                        [name |-> "Object", rename |-> "object"],
                        [name |-> "File", rename |-> "file"] >>)

PATH_REF_PREFIX == "#/components/schemas/"

Schema ==
    Struct("Schema", <<
        Field("description", "description", TStr, "str::is_empty"),
        Field("format", "format", TStr, "str::is_empty"),
        Field("items", "items", TOpt(TNamed("ComponentOrInlineSchema")), "Option::is_none"),
        Field("properties", "properties", TMap(TNamed("ComponentOrInlineSchema")), "IndexMap::is_empty"),
        Field("read_only", "readOnly", TOpt(TBool), "Option::is_none"),
        Field("write_only", "writeOnly", TOpt(TBool), "Option::is_none"),
        Field("nullable", "nullable", TOpt(TBool), "Option::is_none"),
        Field("additional_properties", "additionalProperties",
              TOpt(TNamed("ComponentOrInlineSchema")), "Option::is_none"),
        Field("example", "example", TOpt(TValue), "Option::is_none"),
        Field("title", "title", TStr, "str::is_empty"),
        Field("default", "default", TOpt(TValue), "Option::is_none"),
        Field("all_of", "allOf", TVec(TNamed("ComponentOrInlineSchema")), "Vec::is_empty"),
        Field("one_of", "oneOf", TVec(TNamed("ComponentOrInlineSchema")), "Vec::is_empty"),
        Field("any_of", "anyOf", TVec(TNamed("ComponentOrInlineSchema")), "Vec::is_empty"),
        Field("schema_type", "type", TOpt(Type), "Option::is_none"),
        Field("enum_values", "enum", TVec(TStr), "Vec::is_empty"),
        Field("const_value", "const", TOpt(TValue), "Option::is_none"),
        Field("multiple_of", "multipleOf", TOpt(TValue), "Option::is_none"),
        Field("minimum", "minimum", TOpt(TValue), "Option::is_none"),
        Field("exclusive_minimum", "exclusiveMinimum", TOpt(TValue), "Option::is_none"),
        Field("maximum", "maximum", TOpt(TValue), "Option::is_none"),
        Field("exclusive_maximum", "exclusiveMaximum", TOpt(TValue), "Option::is_none"),
        Field("max_length", "maxLength", TOpt(TUsize), "Option::is_none"),
        Field("min_length", "minLength", TOpt(TUsize), "Option::is_none"),
        Field("pattern", "pattern", TStr, "str::is_empty"),
        Field("max_items", "maxItems", TOpt(TUsize), "Option::is_none"),
        Field("min_items", "minItems", TOpt(TUsize), "Option::is_none"),
        Field("unique_items", "uniqueItems", TOpt(TBool), "Option::is_none"),
        Field("max_properties", "maxProperties", TOpt(TUsize), "Option::is_none"),
        Field("min_properties", "minProperties", TOpt(TUsize), "Option::is_none"),
        Field("required", "required", TVec(TStr), "Vec::is_empty"),
        Field("dependent_required", "dependentRequired", TMap(TVec(TStr)), "IndexMap::is_empty") >>)

\* Variant order exchanged: the inline Schema is tried before the reference.
ComponentOrInlineSchema_InlineFirst ==
    Untagged("ComponentOrInlineSchema", <<
        NewtypeVariant("Inline", Schema),
        StructVariant("Component", <<
            [name |-> "name", key |-> "$ref", ty |-> TStr, skip |-> "",
             flatten |-> FALSE, with |-> "component_ser_as_ref"] >>) >>)

ComponentOrInlineSchema ==
    Untagged("ComponentOrInlineSchema", <<
        StructVariant("Component", <<
            [name |-> "name", key |-> "$ref", ty |-> TStr, skip |-> "",
             flatten |-> FALSE, with |-> "component_ser_as_ref"] >>),
        NewtypeVariant("Inline", Schema) >>)

ObjectOrReference(T) ==
    Untagged("ObjectOrReference", <<
        NewtypeVariant("Object", T),
        StructVariant("Ref", << Field("ref_path", "$ref", TStr, "") >>) >>)

ExampleValue ==
    Untagged("ExampleValue", <<
        StructVariant("Embedded", << Field("value", "value", TValue, "") >>),
        StructVariant("External", << Field("external_value", "externalValue", TStr, "") >>) >>)

\* The summary flattened: a field that is not written as a struct or a map.
Example_FlatSummary ==
    Struct("Example", <<
        Flatten("summary", TStr, "str::is_empty"),
        Field("description", "description", TStr, "str::is_empty"),
        Flatten("value", TOpt(ExampleValue), "Option::is_none") >>)

Example ==
    Struct("Example", <<
        Field("summary", "summary", TStr, "str::is_empty"),
        Field("description", "description", TStr, "str::is_empty"),
        Flatten("value", TOpt(ExampleValue), "Option::is_none") >>)

Header ==
    Struct("Header", <<
        Field("required", "required", TOpt(TBool), "Option::is_none"),
        Field("schema", "schema", TOpt(ComponentOrInlineSchema), "Option::is_none"),
        Field("unique_items", "uniqueItems", TOpt(TBool), "Option::is_none"),
        Field("param_type", "type", TOpt(Type), "Option::is_none"),
        Field("format", "format", TStr, "str::is_empty"),
        Field("description", "description", TStr, "str::is_empty") >>)

Encoding ==
    Struct("Encoding", <<
        Field("content_type", "contentType", TStr, "str::is_empty"),
        Field("headers", "headers", TMap(ObjectOrReference(Header)), "IndexMap::is_empty"),
        Field("style", "style", TStr, "str::is_empty"),
        Field("explode", "explode", TOpt(TBool), "Option::is_none"),
        Field("allow_reserved", "allowReserved", TOpt(TBool), "Option::is_none") >>)

MediaTypeExample ==
    Untagged("MediaTypeExample", <<
        StructVariant("Example", << Field("example", "example", TValue, "") >>),
        StructVariant("Examples", <<
            Field("examples", "examples", TMap(ObjectOrReference(Example)), "") >>) >>)

MediaType ==
    Struct("MediaType", <<
        Field("schema", "schema", TOpt(ComponentOrInlineSchema), "Option::is_none"),
        Flatten("examples", TOpt(MediaTypeExample), "Option::is_none"),
        Field("encoding", "encoding", TMap(Encoding), "IndexMap::is_empty") >>)

ParameterRepresentation ==
    Untagged("ParameterRepresentation", <<
        StructVariant("Simple", << Field("schema", "schema", ComponentOrInlineSchema, "") >>),
        StructVariant("Content", << Field("content", "content", TMap(MediaType), "") >>) >>)

\* Variant order exchanged: Multiple is tried before One.
ParameterExamples_MultipleFirst ==
    Untagged("ParameterExamples", <<
        StructVariant("Multiple", <<
            Field("examples", "examples", TMap(ObjectOrReference(Example)), "") >>),
        StructVariant("One", << Field("example", "example", TOpt(TValue), "") >>) >>)

ParameterExamples ==
    Untagged("ParameterExamples", <<
        StructVariant("One", << Field("example", "example", TOpt(TValue), "") >>),
        StructVariant("Multiple", <<
            Field("examples", "examples", TMap(ObjectOrReference(Example)), "") >>) >>)

LinkOperation ==
    Untagged("LinkOperation", <<
        StructVariant("Id", << Field("operation_id", "operationId", TStr, "") >>),
        StructVariant("Ref", << Field("operation_ref", "operationRef", TStr, "") >>) >>)

ServerVariable ==
    Struct("ServerVariable", <<
        Field("default", "default", TStr, ""),
        Field("substitutions_enum", "enum", TVec(TStr), "Vec::is_empty"),
        Field("description", "description", TStr, "str::is_empty") >>)

Server ==
    Struct("Server", <<
        Field("url", "url", TStr, ""),
        Field("description", "description", TStr, "str::is_empty"),
        Field("variables", "variables", TMap(ServerVariable), "IndexMap::is_empty") >>)

\* Variant order exchanged: the literal value is tried before the string.
RuntimeExpressionOrValue_ValueFirst ==
    Untagged("RuntimeExpressionOrValue", <<
        NewtypeVariant("LiteralValue", TValue),
        NewtypeVariant("RuntimeExpression", TStr) >>)

RuntimeExpressionOrValue ==
    Untagged("RuntimeExpressionOrValue", <<
        NewtypeVariant("RuntimeExpression", TStr),
        NewtypeVariant("LiteralValue", TValue) >>)

Link ==
    Struct("Link", <<
        Flatten("operation", LinkOperation, ""),
        Field("parameters", "parameters", TMap(RuntimeExpressionOrValue), "IndexMap::is_empty"),
        Field("request_body", "requestBody", TOpt(RuntimeExpressionOrValue), "Option::is_none"),
        Field("description", "description", TStr, "str::is_empty"),
        Field("server", "server", TOpt(Server), "Option::is_none") >>)

Location ==
    UnitEnum("Location", << [name |-> "Query", rename |-> "query"],
                            [name |-> "Header", rename |-> "header"],
                            [name |-> "Path", rename |-> "path"],
                            [name |-> "FormData", rename |-> "formData"] >>)

ParameterStyle ==
    UnitEnum("ParameterStyle", << [name |-> "Matrix", rename |-> "matrix"],
                                  [name |-> "Label", rename |-> "label"],
                                  [name |-> "Form", rename |-> "form"],
                                  [name |-> "Simple", rename |-> "simple"],
                                  [name |-> "SpaceDelimited", rename |-> "spaceDelimited"],
                                  [name |-> "PipeDelimited", rename |-> "pipeDelimited"],
                                  [name |-> "DeepObject", rename |-> "deepObject"] >>)

Parameter ==
    Struct("Parameter", <<
        Field("name", "name", TStr, ""),
        Field("location", "in", Location, ""),
        Field("description", "description", TStr, "str::is_empty"),
        Field("required", "required", TOpt(TBool), "Option::is_none"),
        Field("deprecated", "deprecated", TOpt(TBool), "Option::is_none"),
        Field("style", "style", TOpt(ParameterStyle), "Option::is_none"),
        Field("explode", "explode", TOpt(TBool), "Option::is_none"),
        Field("allow_reserved", "allowReserved", TOpt(TBool), "Option::is_none"),
        Flatten("representation", TOpt(ParameterRepresentation), "Option::is_none"),
        Flatten("example", TOpt(ParameterExamples), "Option::is_none") >>)

ImplicitFlow ==
    Struct("ImplicitFlow", <<
        Field("authorization_url", "authorizationUrl", TUrl, ""),
        Field("refresh_url", "refreshUrl", TOpt(TUrl), "Option::is_none"),
        Field("scopes", "scopes", TMap(TStr), "") >>)

PasswordFlow ==
    Struct("PasswordFlow", <<
        Field("token_url", "tokenUrl", TUrl, ""),
        Field("refresh_url", "refreshUrl", TOpt(TUrl), "Option::is_none"),
        Field("scopes", "scopes", TMap(TStr), "") >>)

ClientCredentialsFlow ==
    Struct("ClientCredentialsFlow", <<
        Field("token_url", "tokenUrl", TUrl, ""),
        Field("refresh_url", "refreshUrl", TOpt(TUrl), "Option::is_none"),
        Field("scopes", "scopes", TMap(TStr), "") >>)

AuthorizationCodeFlow ==
    Struct("AuthorizationCodeFlow", <<
        Field("authorization_url", "authorizationUrl", TUrl, ""),
        Field("token_url", "tokenUrl", TUrl, ""),
        Field("refresh_url", "refreshUrl", TOpt(TUrl), "Option::is_none"),
        Field("scopes", "scopes", TMap(TStr), "") >>)

\* rename_all = "camelCase" left out: the keys are the Rust field names.
Flows_SnakeCase ==
    Struct("Flows", <<
        Field("implicit", "implicit", TOpt(ImplicitFlow), "Option::is_none"),
        Field("password", "password", TOpt(PasswordFlow), "Option::is_none"),
        Field("client_credentials", "client_credentials",
              TOpt(ClientCredentialsFlow), "Option::is_none"),
        Field("authorization_code", "authorization_code",
              TOpt(AuthorizationCodeFlow), "Option::is_none") >>)

Flows ==
    Struct("Flows", <<
        Field("implicit", "implicit", TOpt(ImplicitFlow), "Option::is_none"),
        Field("password", "password", TOpt(PasswordFlow), "Option::is_none"),
        Field("client_credentials", "clientCredentials",
              TOpt(ClientCredentialsFlow), "Option::is_none"),
        Field("authorization_code", "authorizationCode",
              TOpt(AuthorizationCodeFlow), "Option::is_none") >>)

SecurityScheme ==
    Tagged("SecurityScheme", "type", <<
        TaggedVariant("ApiKey", "apiKey", <<
            Field("name", "name", TStr, ""),
            Field("location", "in", TStr, "") >>),
        TaggedVariant("Http", "http", <<
            Field("scheme", "scheme", TStr, ""),
            Field("bearer_format", "bearerFormat", TStr, "") >>),
        TaggedVariant("OAuth2", "oauth2", << Field("flows", "flows", Flows, "") >>),
        TaggedVariant("OpenIdConnect", "openIdConnect", <<
            Field("open_id_connect_url", "openIdConnectUrl", TStr, "") >>) >>)

\* The recursive position: Schema's children name ComponentOrInlineSchema.
Resolve(t) == IF t.k = "named" THEN ComponentOrInlineSchema ELSE t

(***************************************************************************)
(* component_ser_as_ref: the codec between a bare component name and its   *)
(* JSON reference path.                                                    *)
(***************************************************************************)
strip_prefix(s, prefix) ==
    IF Len(s) >= Len(prefix) /\ SubSeq(s, 1, Len(prefix)) = prefix
    THEN Some(SubSeq(s, Len(prefix) + 1, Len(s)))
    ELSE None

\* The prefix left out on output.
component_ser_as_ref_serialize_NoPrefix(component) == JStr(component)

component_ser_as_ref_serialize(component) == JStr(PATH_REF_PREFIX \o component)

\* The prefix tested but not removed.
component_ser_as_ref_deserialize_NoStrip(js) ==
    IF js.j # "str"
    THEN Err("invalid type", "")
    ELSE IF strip_prefix(js.str, PATH_REF_PREFIX) # None THEN Ok(js.str)
         ELSE Err("not a component schema reference path", "")

component_ser_as_ref_deserialize(js) ==
    IF js.j # "str"
    THEN Err("invalid type", "")
    ELSE LET s == strip_prefix(js.str, PATH_REF_PREFIX)
         IN  IF s # None THEN Ok(s[1])
             ELSE Err("not a component schema reference path", "")

(***************************************************************************)
(* ComponentOrInlineSchema::unwrap(&self) -> Option<&Schema>               *)
(***************************************************************************)
\* A lookup in place of the match: a component is answered with the schema
\* registered under its name.
unwrap_Resolve(self) ==
    IF self.tag = "Inline" THEN <<self.Inline>>
    ELSE << [description |-> self.Component.name] >>

unwrap(self) ==
    CASE self.tag = "Inline" -> Some(self.Inline)
      [] self.tag = "Component" -> None

(***************************************************************************)
(* url::Url as serde sees it: a string that Url::parse accepts, kept in    *)
(* its normalised form.  A string without "scheme://" is a relative URL    *)
(* and is refused, as is one with an empty host; an empty path becomes     *)
(* "/".  (Case folding is left out: the URLs used here are lower-case.)    *)
(***************************************************************************)
Url_parse(s) ==
    LET marks == {i \in 2..(Len(s) - 2) : SubSeq(s, i, i + 2) = "://"}
        start == Min(marks) + 3
        slashes == {i \in start..Len(s) : SubSeq(s, i, i) = "/"}
    IN  IF marks = {} THEN Err("relative URL without a base", "")
        ELSE IF start > Len(s) \/ start \in slashes THEN Err("empty host", "")
        ELSE IF slashes = {} THEN Ok(s \o "/")
        ELSE Ok(s)

(***************************************************************************)
(* Derived Deserialize.                                                    *)
(***************************************************************************)
HasFlatten(fields) == \E i \in DOMAIN fields : fields[i].flatten

FieldIdx(fields, key) == {i \in DOMAIN fields : ~fields[i].flatten /\ fields[i].key = key}

FieldByName(fields, name) == CHOOSE i \in DOMAIN fields : fields[i].name = name

FieldNames(fields) == {fields[i].name : i \in DOMAIN fields}

\* A JSON value treated like an Option: absent reads as unset.
MayBeMissing_AnyValue(f) == Resolve(f.ty).k \in {"opt", "value"} /\ f.with = ""

\* Every field taken from Default when absent, as under #[serde(default)].
MayBeMissing_Defaulted(f) == f.with = ""

\* serde's missing_field: only an Option field may be absent.
MayBeMissing(f) == Resolve(f.ty).k = "opt" /\ f.with = ""

RECURSIVE Deserialize(_, _)
RECURSIVE DeserializeField(_, _)
RECURSIVE DeserializeSeq(_, _)
RECURSIVE DeserializeMap(_, _)
RECURSIVE DeserializeStructMap(_, _)
RECURSIVE DeserializeStructSeq(_, _)
RECURSIVE DeserializeFlatten(_, _)
RECURSIVE DeserializeVariant(_, _)
RECURSIVE DeserializeUntagged(_, _, _)
RECURSIVE DeserializeTagged(_, _)

DeserializeField(f, js) ==
    IF f.with = "component_ser_as_ref"
    THEN component_ser_as_ref_deserialize(js)
    ELSE Deserialize(f.ty, js)

\* Vec<T>
DeserializeSeq(t, arr) ==
    LET r == [i \in DOMAIN arr |-> Deserialize(t, arr[i])]
        bad == {i \in DOMAIN arr : ~r[i].ok}
    IN  IF bad # {} THEN r[Min(bad)]
        ELSE Ok([i \in DOMAIN arr |-> r[i].val])

\* The entries stored last first.
DeserializeMap_Reversed(t, es) ==
    LET r == [i \in DOMAIN es |-> Deserialize(t, es[i][2])]
        bad == {i \in DOMAIN es : ~r[i].ok}
    IN  IF bad # {} THEN r[Min(bad)]
        ELSE Ok([n \in DOMAIN es |-> <<es[Len(es) + 1 - n][1], r[Len(es) + 1 - n].val>>])

\* IndexMap<Str, T>: entries in document order; a repeated key keeps its
\* first position and takes its last value.
DeserializeMap(t, es) ==
    LET r == [i \in DOMAIN es |-> Deserialize(t, es[i][2])]
        bad == {i \in DOMAIN es : ~r[i].ok}
        firsts == SelectSeq([i \in DOMAIN es |-> i],
                            LAMBDA i : i = FirstIdx(es, es[i][1]))
    IN  IF bad # {} THEN r[Min(bad)]
        ELSE Ok([n \in DOMAIN firsts |->
                    <<es[firsts[n]][1], r[LastIdx(es, es[firsts[n]][1])].val>>])

\* The failure of the inner type of a flattened Option handed on.
DeserializeFlatten_Propagate(t, collected) ==
    IF t.k = "opt"
    THEN LET r == Deserialize(t.of, JObj(collected))
         IN  IF r.ok THEN Ok(Some(r.val)) ELSE r
    ELSE Deserialize(t, JObj(collected))

\* A flattened field sees the entries no named field has taken.  For an
\* Option the failure of the inner type turns into None.
DeserializeFlatten(t, collected) ==
    IF t.k = "opt"
    THEN LET r == Deserialize(t.of, JObj(collected))
         IN  IF r.ok THEN Ok(Some(r.val)) ELSE Ok(None)
    ELSE Deserialize(t, JObj(collected))

\* The struct read as under deny_unknown_fields: a key that names no field
\* is an error.
DeserializeStructMap_DenyUnknown(fields, es) ==
    LET known(i) == FieldIdx(fields, es[i][1]) # {}
        fld(i) == fields[CHOOSE x \in FieldIdx(fields, es[i][1]) : TRUE]
        dup(i) == \E h \in 1..(i - 1) : es[h][1] = es[i][1]
        r(i) == DeserializeField(fld(i), es[i][2])
        bad == {i \in DOMAIN es : known(i) /\ (dup(i) \/ ~r(i).ok)}
        missing == {x \in DOMAIN fields : /\ ~fields[x].flatten
                                           /\ ~HasKey(es, fields[x].key)
                                           /\ ~MayBeMissing(fields[x])}
        collected == SelectSeq(es, LAMBDA e : FieldIdx(fields, e[1]) = {})
        flat(x) == DeserializeFlatten(fields[x].ty, collected)
        badFlat == {x \in DOMAIN fields : fields[x].flatten /\ ~flat(x).ok}
        fieldValue(x) ==
            IF fields[x].flatten THEN flat(x).val
            ELSE IF HasKey(es, fields[x].key) THEN r(FirstIdx(es, fields[x].key)).val
            ELSE None
        unknown == IF HasFlatten(fields) THEN {} ELSE {i \in DOMAIN es : ~known(i)}
    IN  IF unknown # {} THEN Err("unknown field", es[Min(unknown)][1])
        ELSE IF bad # {}
        THEN IF dup(Min(bad)) THEN Err("duplicate field", es[Min(bad)][1]) ELSE r(Min(bad))
        ELSE IF missing # {} THEN Err("missing field", fields[Min(missing)].key)
        ELSE IF badFlat # {} THEN flat(Min(badFlat))
        ELSE Ok([n \in FieldNames(fields) |-> fieldValue(FieldByName(fields, n))])

\* visit_map of a derived struct (or struct variant).
DeserializeStructMap(fields, es) ==
    LET known(i) == FieldIdx(fields, es[i][1]) # {}
        fld(i) == fields[CHOOSE x \in FieldIdx(fields, es[i][1]) : TRUE]
        dup(i) == \E h \in 1..(i - 1) : es[h][1] = es[i][1]
        r(i) == DeserializeField(fld(i), es[i][2])
        bad == {i \in DOMAIN es : known(i) /\ (dup(i) \/ ~r(i).ok)}
        missing == {x \in DOMAIN fields : /\ ~fields[x].flatten
                                           /\ ~HasKey(es, fields[x].key)
                                           /\ ~MayBeMissing(fields[x])}
        collected == SelectSeq(es, LAMBDA e : FieldIdx(fields, e[1]) = {})
        flat(x) == DeserializeFlatten(fields[x].ty, collected)
        badFlat == {x \in DOMAIN fields : fields[x].flatten /\ ~flat(x).ok}
        fieldValue(x) ==
            IF fields[x].flatten THEN flat(x).val
            ELSE IF HasKey(es, fields[x].key) THEN r(FirstIdx(es, fields[x].key)).val
            ELSE None
    IN  IF bad # {}
        THEN IF dup(Min(bad)) THEN Err("duplicate field", es[Min(bad)][1]) ELSE r(Min(bad))
        ELSE IF missing # {} THEN Err("missing field", fields[Min(missing)].key)
        ELSE IF badFlat # {} THEN flat(Min(badFlat))
        ELSE Ok([n \in FieldNames(fields) |-> fieldValue(FieldByName(fields, n))])

\* visit_seq of a derived struct (or struct variant): the fields by position.
DeserializeStructSeq(fields, arr) ==
    LET both == (DOMAIN arr) \cap (DOMAIN fields)
        r(i) == DeserializeField(fields[i], arr[i])
        bad == {i \in both : ~r(i).ok}
    IN  IF bad # {} THEN r(Min(bad))
        ELSE IF Len(arr) # Len(fields) THEN Err("invalid length", "")
        ELSE Ok([n \in FieldNames(fields) |-> r(FieldByName(fields, n)).val])

DeserializeVariant(variant, js) ==
    IF variant.shape = "newtype" THEN Deserialize(variant.ty, js)
    ELSE IF js.j = "obj" THEN DeserializeStructMap(variant.fields, js.obj)
    ELSE IF js.j = "arr" THEN DeserializeStructSeq(variant.fields, js.arr)
    ELSE Err("invalid type", "")

\* A reader that follows a component reference: the Component variant is
\* replaced by the inline schema registered under its name, which refers
\* to itself.
DeserializeUntagged_FollowRef(t, js, n) ==
    LET registered == [n0 \in FieldNames(Schema.fields) |->
                          IF n0 = "items" THEN Some(Variant("Component", [name |-> "Pet"]))
                          ELSE IF n0 \in {"description", "format", "title", "pattern"} THEN ""
                          ELSE <<>>]
    IN  IF n > Len(t.variants)
        THEN Err("data did not match any variant of untagged enum", t.name)
        ELSE LET r == DeserializeVariant(t.variants[n], js)
             IN  IF r.ok
                 THEN IF t.variants[n].name = "Component"
                      THEN Ok(Variant("Inline", registered))
                      ELSE Ok(Variant(t.variants[n].name, r.val))
                 ELSE DeserializeUntagged(t, js, n + 1)

\* #[serde(untagged)]: the variants are tried in declaration order and the
\* first one that deserializes is taken.
DeserializeUntagged(t, js, n) ==
    IF n > Len(t.variants)
    THEN Err("data did not match any variant of untagged enum", t.name)
    ELSE LET r == DeserializeVariant(t.variants[n], js)
         IN  IF r.ok THEN Ok(Variant(t.variants[n].name, r.val))
             ELSE DeserializeUntagged(t, js, n + 1)

\* A lenient reading of the tag: an unrecognized or missing tag selects the
\* first variant.
DeserializeTagged_LenientTag(t, js) ==
    LET named(s) == {i \in DOMAIN t.variants : t.variants[i].rename = s}
        tags == {i \in DOMAIN js.obj : js.obj[i][1] = t.tag}
        given == IF tags = {} THEN JNull ELSE js.obj[Min(tags)][2]
        pick == IF given.j = "str" /\ named(given.str) # {}
                THEN CHOOSE i \in named(given.str) : TRUE
                ELSE 1
        r == DeserializeStructMap(t.variants[pick].fields,
                                  SelectSeq(js.obj, LAMBDA e : e[1] # t.tag))
    IN  IF js.j # "obj" THEN Err("invalid type", "")
        ELSE IF r.ok THEN Ok(Variant(t.variants[pick].name, r.val)) ELSE r

\* A reader that probes: when the fields of the variant the tag names cannot
\* be read, the other variants are tried in declaration order.
DeserializeTagged_Fallback(t, js) ==
    LET named(s) == {i \in DOMAIN t.variants : t.variants[i].rename = s}
        tags == {i \in DOMAIN js.obj : js.obj[i][1] = t.tag}
        rest == SelectSeq(js.obj, LAMBDA e : e[1] # t.tag)
        read(i) == DeserializeStructMap(t.variants[i].fields, rest)
        fits == {i \in DOMAIN t.variants : read(i).ok}
        given == js.obj[Min(tags)][2]
    IN  IF js.j # "obj" THEN Err("invalid type", "")
        ELSE IF tags = {} THEN Err("missing field", t.tag)
        ELSE IF given.j # "str" THEN Err("invalid type", t.tag)
        ELSE IF named(given.str) = {} THEN Err("unknown variant", given.str)
        ELSE LET i == CHOOSE x \in named(given.str) : TRUE
             IN  IF read(i).ok THEN Ok(Variant(t.variants[i].name, read(i).val))
                 ELSE IF fits # {} THEN Ok(Variant(t.variants[Min(fits)].name, read(Min(fits)).val))
                 ELSE read(i)

\* #[serde(tag = "...")]: the tag is read first (from its key in a map, or
\* as the first element of a sequence) and names the variant whose fields
\* are then read from the remaining content.
DeserializeTagged(t, js) ==
    LET named(s) == {i \in DOMAIN t.variants : t.variants[i].rename = s}
        tagOf(v) == IF v.j # "str" THEN Err("invalid type", t.tag)
                    ELSE IF named(v.str) = {} THEN Err("unknown variant", v.str)
                    ELSE Ok(CHOOSE i \in named(v.str) : TRUE)
        wrap(i, r) == IF r.ok THEN Ok(Variant(t.variants[i].name, r.val)) ELSE r
    IN  IF js.j = "obj"
        THEN LET tags == {i \in DOMAIN js.obj : js.obj[i][1] = t.tag}
             IN  IF tags = {} THEN Err("missing field", t.tag)
                 ELSE LET tg == tagOf(js.obj[Min(tags)][2])
                      IN  IF ~tg.ok THEN tg
                          ELSE IF Cardinality(tags) > 1 THEN Err("duplicate field", t.tag)
                          ELSE wrap(tg.val,
                                    DeserializeStructMap(t.variants[tg.val].fields,
                                                         SelectSeq(js.obj, LAMBDA e : e[1] # t.tag)))
        ELSE IF js.j = "arr"
        THEN IF Len(js.arr) = 0 THEN Err("missing field", t.tag)
             ELSE LET tg == tagOf(js.arr[1])
                  IN  IF ~tg.ok THEN tg
                      ELSE wrap(tg.val,
                                DeserializeStructSeq(t.variants[tg.val].fields, Tail(js.arr)))
        ELSE Err("invalid type", "")

Deserialize(t0, js) ==
    LET t == Resolve(t0) IN
    CASE t.k = "str" -> IF js.j = "str" THEN Ok(js.str) ELSE Err("invalid type", "")
      [] t.k = "bool" -> IF js.j = "bool" THEN Ok(js.bool) ELSE Err("invalid type", "")
      [] t.k = "usize" ->
            IF js.j # "num" THEN Err("invalid type", "")
            ELSE IF js.num < 0 THEN Err("invalid value", "")
            ELSE Ok(js.num)
      [] t.k = "value" -> Ok(js)
      [] t.k = "url" -> IF js.j = "str" THEN Url_parse(js.str) ELSE Err("invalid type", "")
      [] t.k = "opt" ->
            IF js.j = "null" THEN Ok(None)
            ELSE LET r == Deserialize(t.of, js) IN IF r.ok THEN Ok(Some(r.val)) ELSE r
      [] t.k = "vec" ->
            IF js.j = "arr" THEN DeserializeSeq(t.of, js.arr) ELSE Err("invalid type", "")
      [] t.k = "map" ->
            IF js.j = "obj" THEN DeserializeMap(t.of, js.obj) ELSE Err("invalid type", "")
      [] t.k = "unit_enum" ->
            LET named(s) == {i \in DOMAIN t.variants : t.variants[i].rename = s}
                pick(s) == t.variants[CHOOSE i \in named(s) : TRUE].name
            IN  IF js.j = "str"
                THEN IF named(js.str) # {} THEN Ok(pick(js.str)) ELSE Err("unknown variant", "")
                ELSE IF js.j = "obj" /\ Len(js.obj) = 1
                THEN IF named(js.obj[1][1]) = {} THEN Err("unknown variant", "")
                     ELSE IF js.obj[1][2].j = "null" THEN Ok(pick(js.obj[1][1]))
                     ELSE Err("invalid type", "")
                ELSE Err("invalid type", "")
      [] t.k = "struct" ->
            IF js.j = "obj" THEN DeserializeStructMap(t.fields, js.obj)
            ELSE IF js.j = "arr" /\ ~HasFlatten(t.fields)
            THEN DeserializeStructSeq(t.fields, js.arr)
            ELSE Err("invalid type", "")
      [] t.k = "untagged" -> DeserializeUntagged(t, js, 1)
      [] t.k = "tagged" -> DeserializeTagged(t, js)

(***************************************************************************)
(* Derived Serialize.                                                      *)
(***************************************************************************)
\* A blanket "omit falsy" rule: an explicit false is skipped like None.
Skip_Falsy(f, x) ==
    CASE f.skip = "str::is_empty" -> x = ""
      [] f.skip = "Option::is_none" -> x = None \/ (f.ty = TOpt(TBool) /\ x = Some(FALSE))
      [] f.skip \in {"Vec::is_empty", "IndexMap::is_empty", "BTreeMap::is_empty"} -> x = <<>>
      [] OTHER -> FALSE

\* skip_serializing_if
Skip(f, x) ==
    CASE f.skip = "str::is_empty" -> x = ""
      [] f.skip = "Option::is_none" -> x = None
      [] f.skip \in {"Vec::is_empty", "IndexMap::is_empty", "BTreeMap::is_empty"} -> x = <<>>
      [] OTHER -> FALSE

\* The Err of a Serializer, carried in place of the node that raised it.
SerError(msg) == [j |-> "error", err |-> msg]

RECURSIVE Serialize(_, _)
RECURSIVE SerializeField(_, _)
RECURSIVE SerializeFields(_, _, _)
RECURSIVE SerializeUntagged(_, _)

SerializeField(f, x) ==
    IF f.with = "component_ser_as_ref"
    THEN component_ser_as_ref_serialize(x)
    ELSE Serialize(f.ty, x)

\* A blanket "omit null" rule: a field whose output is null is left out.
RECURSIVE SerializeFields_SkipNull(_, _, _)
SerializeFields_SkipNull(fields, x, n) ==
    IF n > Len(fields) THEN <<>>
    ELSE LET f == fields[n]
             here == IF Skip(f, x[f.name]) THEN <<>>
                     ELSE IF f.flatten
                     THEN LET inner == Serialize(f.ty, x[f.name])
                          IN  IF inner.j = "obj" THEN inner.obj
                              ELSE IF f.ty.k = "opt" /\ x[f.name] = None THEN <<>>
                              ELSE << <<"", SerError("can only flatten structs and maps")>> >>
                     ELSE IF SerializeField(f, x[f.name]) = JNull THEN <<>>
                     ELSE << <<f.key, SerializeField(f, x[f.name])>> >>
         IN  here \o SerializeFields_SkipNull(fields, x, n + 1)

\* The entries of fields n.. of a struct, in declaration order.
SerializeFields(fields, x, n) ==
    IF n > Len(fields) THEN <<>>
    ELSE LET f == fields[n]
             here == IF Skip(f, x[f.name]) THEN <<>>
                     ELSE IF f.flatten
                     THEN LET inner == Serialize(f.ty, x[f.name])
                          IN  IF inner.j = "obj" THEN inner.obj
                              ELSE IF f.ty.k = "opt" /\ x[f.name] = None THEN <<>>
                              ELSE << <<"", SerError("can only flatten structs and maps")>> >>
                     ELSE << <<f.key, SerializeField(f, x[f.name])>> >>
         IN  here \o SerializeFields(fields, x, n + 1)

\* An externally tagged enum: the content under a key naming the variant.
RECURSIVE SerializeUntagged_Wrapped(_, _)
SerializeUntagged_Wrapped(t, x) ==
    LET variant == t.variants[CHOOSE i \in DOMAIN t.variants : t.variants[i].name = x.tag]
    IN  IF variant.shape = "newtype"
        THEN JObj(<< <<x.tag, Serialize(variant.ty, x[x.tag])>> >>)
        ELSE JObj(<< <<x.tag, JObj(SerializeFields(variant.fields, x[x.tag], 1))>> >>)

\* #[serde(untagged)]: the content of the variant and nothing else.
SerializeUntagged(t, x) ==
    LET variant == t.variants[CHOOSE i \in DOMAIN t.variants : t.variants[i].name = x.tag]
    IN  IF variant.shape = "newtype" THEN Serialize(variant.ty, x[x.tag])
        ELSE JObj(SerializeFields(variant.fields, x[x.tag], 1))

Serialize(t0, x) ==
    LET t == Resolve(t0) IN
    CASE t.k = "str" -> JStr(x)
      [] t.k = "bool" -> JBool(x)
      [] t.k = "usize" -> JNum(x)
      [] t.k = "value" -> x
      [] t.k = "url" -> JStr(x)
      [] t.k = "opt" -> IF x = None THEN JNull ELSE Serialize(t.of, x[1])
      [] t.k = "vec" -> JArr([i \in DOMAIN x |-> Serialize(t.of, x[i])])
      [] t.k = "map" -> JObj([i \in DOMAIN x |-> <<x[i][1], Serialize(t.of, x[i][2])>>])
      [] t.k = "unit_enum" ->
            JStr(t.variants[CHOOSE i \in DOMAIN t.variants : t.variants[i].name = x].rename)
      [] t.k = "struct" -> JObj(SerializeFields(t.fields, x, 1))
      [] t.k = "untagged" -> SerializeUntagged(t, x)
      [] t.k = "tagged" ->
            LET variant == t.variants[CHOOSE i \in DOMAIN t.variants : t.variants[i].name = x.tag]
            IN  JObj(<< <<t.tag, JStr(variant.rename)>> >>
                        \o SerializeFields(variant.fields, x[x.tag], 1))

\* The errors raised anywhere in an output.
RECURSIVE Errors(_)
Errors(doc) ==
    CASE doc.j = "error" -> {doc.err}
      [] doc.j = "obj" -> UNION {Errors(doc.obj[i][2]) : i \in DOMAIN doc.obj}
      [] doc.j = "arr" -> UNION {Errors(doc.arr[i]) : i \in DOMAIN doc.arr}
      [] OTHER -> {}

\* serde_json::to_value: the output, or the error raised while writing it.
to_value(t, x) ==
    LET out == Serialize(t, x)
    IN  IF Errors(out) = {} THEN out ELSE SerError(CHOOSE e \in Errors(out) : TRUE)

(***************************************************************************)
(* The types a caller serializes or deserializes.                          *)
(***************************************************************************)
TypeNames ==
    {"Schema", "ComponentOrInlineSchema", "ObjectOrReference<Schema>",
     "ObjectOrReference<Example>", "ExampleValue", "MediaTypeExample",
     "ParameterRepresentation", "ParameterExamples", "LinkOperation",
     "Parameter", "MediaType", "SecurityScheme", "Example",
     "RuntimeExpressionOrValue", "Link"}

TypeOf(name) ==
    CASE name = "Schema" -> Schema
      [] name = "ComponentOrInlineSchema" -> ComponentOrInlineSchema
      [] name = "ObjectOrReference<Schema>" -> ObjectOrReference(Schema)
      [] name = "ObjectOrReference<Example>" -> ObjectOrReference(Example)
      [] name = "ExampleValue" -> ExampleValue
      [] name = "MediaTypeExample" -> MediaTypeExample
      [] name = "ParameterRepresentation" -> ParameterRepresentation
      [] name = "ParameterExamples" -> ParameterExamples
      [] name = "LinkOperation" -> LinkOperation
      [] name = "Parameter" -> Parameter
      [] name = "MediaType" -> MediaType
      [] name = "SecurityScheme" -> SecurityScheme
      [] name = "Example" -> Example
      [] name = "RuntimeExpressionOrValue" -> RuntimeExpressionOrValue
      [] name = "Link" -> Link

(***************************************************************************)
(* Values built in memory.                                                 *)
(***************************************************************************)
MaxDepth == 1

\* #[derive(Default)]
DefaultField(f) == IF Resolve(f.ty).k = "str" THEN "" ELSE <<>>

DefaultSchema == [n \in FieldNames(Schema.fields) |->
                    DefaultField(Schema.fields[FieldByName(Schema.fields, n)])]

Component(name) == Variant("Component", [name |-> name])
Inline(s) == Variant("Inline", s)

ComponentNames == {"", "Pet", PATH_REF_PREFIX \o "Pet"}

\* Every field that deserialization requires holds a non-empty value.
FullSchema ==
    [DefaultSchema EXCEPT
        !.description = "d", !.format = "f", !.title = "t", !.pattern = "x",
        !.properties = << <<"p", Component("Pet")>> >>,
        !.all_of = << Component("Pet") >>,
        !.one_of = << Component("Pet") >>,
        !.any_of = << Component("Pet") >>,
        !.enum_values = << "e" >>,
        !.required = << "r" >>,
        !.dependent_required = << <<"a", << "b" >> >> >>]

BaseSchemas == {DefaultSchema, FullSchema}

ValueSamples == {JNull, JBool(FALSE), JNum(0), JStr(""), JStr("v")}

\* Values of a field's type: its empty value and some non-empty ones;
\* children are the indirections in the set given.
Samples(f, children) ==
    LET t == f.ty IN
    CASE t = TStr -> {"", "a"}
      [] t = TOpt(TBool) -> {None, Some(FALSE), Some(TRUE)}
      [] t = TOpt(TValue) -> {None} \cup {Some(x) : x \in ValueSamples}
      [] t = TOpt(TUsize) -> {None, Some(0), Some(2)}
      [] t = TOpt(Type) -> {None, Some("String"), Some("File")}
      [] t = TVec(TStr) -> {<<>>, << "b", "a" >>}
      [] t = TMap(TVec(TStr)) -> {<<>>, << <<"b", <<>> >>, <<"a", << "b" >> >> >>}
      [] t = TOpt(TNamed("ComponentOrInlineSchema")) -> {None} \cup {Some(c) : c \in children}
      [] t = TVec(TNamed("ComponentOrInlineSchema")) ->
            {<<>>, << Component("Pet"), Component("") >>} \cup {<< c >> : c \in children}
      [] t = TMap(TNamed("ComponentOrInlineSchema")) ->
            {<<>>, << <<"z", Component("Pet")>>, <<"a", Component("")>> >>}
                \cup {<< <<"p", c>> >> : c \in children}

\* The fields of Schema that hold nested indirections.
ChildFields ==
    {i \in DOMAIN Schema.fields :
        Schema.fields[i].ty \in {TOpt(TNamed("ComponentOrInlineSchema")),
                                 TVec(TNamed("ComponentOrInlineSchema")),
                                 TMap(TNamed("ComponentOrInlineSchema"))}}

RECURSIVE EditedSchemas(_, _)
RECURSIVE IndirectionValues(_)

\* A base schema with one of the given fields replaced; children nest at
\* most d inline levels.
EditedSchemas(fieldIdx, d) ==
    LET edits == UNION { {<<i, x>> : x \in Samples(Schema.fields[i], IndirectionValues(d))} :
                         i \in fieldIdx }
    IN  { [b EXCEPT ![Schema.fields[e[1]].name] = e[2]] : b \in BaseSchemas, e \in edits }

\* The inline levels below the top one vary in their child fields only.
IndirectionValues(d) ==
    {Component(n) : n \in ComponentNames}
        \cup (IF d = 0 THEN {} ELSE {Inline(s) : s \in EditedSchemas(ChildFields, d - 1)})

SchemaValues(d) == EditedSchemas(DOMAIN Schema.fields, d)

TopIndirectionValues(d) ==
    {Component(n) : n \in ComponentNames}
        \cup (IF d = 0 THEN {} ELSE {Inline(s) : s \in SchemaValues(d - 1)})

\* The number of levels of the items chains built.
ItemsLevels == 5

RECURSIVE ItemsChains(_)

\* Indirections whose items chain goes n inline levels down and ends in an
\* inline Schema without items or in a component reference.
ItemsChains(n) ==
    IF n = 0 THEN {Component("Pet")} \cup {Inline(b) : b \in BaseSchemas}
    ELSE {Inline([b EXCEPT !.items = Some(c)]) : b \in BaseSchemas, c \in ItemsChains(n - 1)}

ItemsChainSchemas ==
    {[b EXCEPT !.items = Some(c)] : b \in BaseSchemas, c \in ItemsChains(ItemsLevels - 1)}

Ref(ref_path) == Variant("Ref", [ref_path |-> ref_path])
Object(x) == Variant("Object", x)

ObjectOrReferenceValues ==
    {Ref(s) : s \in {"#/components/schemas/Pet", "#/components/examples/a", "Pet", ""}}
        \cup {Object(x) : x \in SchemaValues(0)}

\* Values of the unions and of the structs around them: every variant,
\* and the fields set and unset.
ExampleValueValues ==
    {Variant("Embedded", [value |-> v]) : v \in ValueSamples}
        \cup {Variant("External", [external_value |-> u]) : u \in {"", "http://e"}}

ExampleValues ==
    {[summary |-> a, description |-> d, value |-> v] :
        a \in {"", "s"}, d \in {"", "d"},
        v \in {None} \cup {Some(e) : e \in ExampleValueValues}}

FullExample ==
    [summary |-> "s", description |-> "d",
     value |-> Some(Variant("Embedded", [value |-> JStr("v")]))]

ObjectOrReferenceExampleValues ==
    {Ref("#/components/examples/a")} \cup {Object(e) : e \in ExampleValues}

ExamplesMapValues ==
    { <<>>,
      << <<"a", Ref("#/components/examples/a")>> >>,
      << <<"b", Object(FullExample)>>, <<"a", Ref("#/components/examples/a")>> >> }

MediaTypeExampleValues ==
    {Variant("Example", [example |-> v]) : v \in ValueSamples}
        \cup {Variant("Examples", [examples |-> m]) : m \in ExamplesMapValues}

HeaderValues ==
    { [required |-> None, schema |-> None, unique_items |-> None, param_type |-> None,
       format |-> "", description |-> ""],
      [required |-> Some(TRUE), schema |-> Some(Component("Pet")), unique_items |-> Some(FALSE),
       param_type |-> Some("String"), format |-> "f", description |-> "d"] }

EncodingValues ==
    { [content_type |-> "", headers |-> <<>>, style |-> "", explode |-> None,
       allow_reserved |-> None] }
        \cup { [content_type |-> "text/plain",
                headers |-> << <<"h", Object(h)>>, <<"r", Ref("#/components/headers/r")>> >>,
                style |-> "form", explode |-> Some(TRUE), allow_reserved |-> Some(FALSE)] :
               h \in HeaderValues }

MediaTypeValues ==
    {[schema |-> c, examples |-> e, encoding |-> g] :
        c \in {None, Some(Component("Pet")), Some(Inline(FullSchema))},
        e \in {None} \cup {Some(x) : x \in MediaTypeExampleValues},
        g \in {<<>>} \cup {<< <<"f", x>> >> : x \in EncodingValues}}

FullMediaType ==
    [schema |-> Some(Component("Pet")),
     examples |-> Some(Variant("Example", [example |-> JNum(0)])),
     encoding |-> <<>>]

ParameterRepresentationValues ==
    {Variant("Simple", [schema |-> c]) :
        c \in {Component("Pet"), Inline(DefaultSchema), Inline(FullSchema)}}
        \cup {Variant("Content", [content |-> m]) :
                m \in {<<>>, << <<"application/json", FullMediaType>> >>}}

ParameterExamplesValues ==
    {Variant("One", [example |-> v]) : v \in {None} \cup {Some(x) : x \in ValueSamples}}
        \cup {Variant("Multiple", [examples |-> m]) : m \in ExamplesMapValues}

LinkOperationValues ==
    {Variant("Id", [operation_id |-> x]) : x \in {"", "getPet"}}
        \cup {Variant("Ref", [operation_ref |-> x]) : x \in {"", "#/paths/~1pets/get"}}

\* Parameter::default(), Location::default() being Query
DefaultParameter ==
    [name |-> "", location |-> "Query", description |-> "", required |-> None,
     deprecated |-> None, style |-> None, explode |-> None, allow_reserved |-> None,
     representation |-> None, example |-> None]

ParameterValues ==
    {[DefaultParameter EXCEPT !.name = "id", !.location = l] :
        l \in {"Query", "Header", "Path", "FormData"}}
    \cup
    {[DefaultParameter EXCEPT !.name = "id", !.description = d, !.required = r,
                              !.deprecated = p, !.style = y, !.explode = e,
                              !.allow_reserved = a] :
        d \in {"", "d"}, r \in {None, Some(TRUE)}, p \in {None, Some(FALSE)},
        y \in {None, Some("DeepObject")}, e \in {None, Some(FALSE)},
        a \in {None, Some(TRUE)}}
    \cup
    {[DefaultParameter EXCEPT !.name = "id", !.description = "d",
                              !.representation = r, !.example = e] :
        r \in {None} \cup {Some(x) : x \in ParameterRepresentationValues},
        e \in {None} \cup {Some(x) : x \in ParameterExamplesValues}}

\* Flow objects; a Url held in memory is in the form Url::parse gives it.
\* The scopes of the crate's own test.
ScopesGiven ==
    << <<"write:pets", "modify pets in your account">>, <<"read:pets", "read your pets">> >>

ScopesValues == {<<>>, ScopesGiven}

RefreshUrls == {None, Some("https://example.com/api/oauth/refresh")}

FlowsValues ==
    {[implicit |-> i, password |-> p, client_credentials |-> c, authorization_code |-> a] :
        i \in {None} \cup
              {Some([authorization_url |-> "https://example.com/api/oauth/dialog",
                     refresh_url |-> r, scopes |-> x]) :
                  r \in RefreshUrls, x \in ScopesValues},
        p \in {None, Some([token_url |-> "https://example.com/", refresh_url |-> None,
                           scopes |-> <<>>])},
        c \in {None, Some([token_url |-> "https://example.com/api/oauth/token",
                           refresh_url |-> None, scopes |-> ScopesGiven])},
        a \in {None, Some([authorization_url |-> "https://example.com/api/oauth/dialog",
                           token_url |-> "https://example.com/api/oauth/token",
                           refresh_url |-> None, scopes |-> ScopesGiven])}}

SecuritySchemeValues ==
    {Variant("ApiKey", [name |-> n, location |-> l]) :
        n \in {"", "api_key"}, l \in {"header", "cookie"}}
    \cup {Variant("Http", [scheme |-> x, bearer_format |-> b]) :
            x \in {"basic", "bearer"}, b \in {"", "JWT"}}
    \cup {Variant("OAuth2", [flows |-> f]) : f \in FlowsValues}
    \cup {Variant("OpenIdConnect", [open_id_connect_url |-> u]) :
            u \in {"", "https://example.com/.well-known"}}

RuntimeExpression(s) == Variant("RuntimeExpression", s)
LiteralValue(v) == Variant("LiteralValue", v)

RuntimeExpressionOrValueValues ==
    {RuntimeExpression(x) : x \in {"", "v", "$request.path.id"}}
        \cup {LiteralValue(v) : v \in ValueSamples \cup
                    {JStr("$request.path.id"), JNum(2), JBool(TRUE),
                     JArr(<< JStr("a"), JNull >>), JObj(<< <<"k", JStr("v")>> >>)}}

ServerValues ==
    { [url |-> "https://example.com/", description |-> "", variables |-> <<>>],
      [url |-> "https://{host}/", description |-> "d",
       variables |-> << <<"host", [default |-> "example.com",
                                   substitutions_enum |-> << "example.com" >>,
                                   description |-> ""]>> >>] }

LinkValues ==
    {[operation |-> o, parameters |-> p, request_body |-> b, description |-> d, server |-> v] :
        o \in LinkOperationValues,
        p \in { <<>>,
                << <<"id", RuntimeExpression("$request.path.id")>>,
                   <<"n", LiteralValue(JNum(2))>> >>,
                << <<"s", LiteralValue(JStr("v"))>> >> },
        b \in {None, Some(RuntimeExpression("$request.path.id")), Some(LiteralValue(JStr("v"))),
               Some(LiteralValue(JNum(0)))},
        d \in {"", "d"},
        v \in {None} \cup {Some(x) : x \in ServerValues}}

Values(name) ==
    CASE name = "Schema" -> SchemaValues(MaxDepth) \cup ItemsChainSchemas
      [] name = "ComponentOrInlineSchema" -> TopIndirectionValues(MaxDepth)
      [] name = "ObjectOrReference<Schema>" -> ObjectOrReferenceValues
      [] name = "ObjectOrReference<Example>" -> ObjectOrReferenceExampleValues
      [] name = "ExampleValue" -> ExampleValueValues
      [] name = "MediaTypeExample" -> MediaTypeExampleValues
      [] name = "ParameterRepresentation" -> ParameterRepresentationValues
      [] name = "ParameterExamples" -> ParameterExamplesValues
      [] name = "LinkOperation" -> LinkOperationValues
      [] name = "Parameter" -> ParameterValues
      [] name = "MediaType" -> MediaTypeValues
      [] name = "SecurityScheme" -> SecuritySchemeValues
      [] name = "Example" -> ExampleValues
      [] name = "RuntimeExpressionOrValue" -> RuntimeExpressionOrValueValues
      [] name = "Link" -> LinkValues

(***************************************************************************)
(* Documents received for deserialization.                                 *)
(***************************************************************************)
MaxExtra == 2

\* The entries of a sequence at the positions in S, in order.
Pick(seq, S) ==
    LET idx == SelectSeq([i \in DOMAIN seq |-> i], LAMBDA i : i \in S)
    IN  [n \in DOMAIN idx |-> seq[idx[n]]]

Without(es, key) == SelectSeq(es, LAMBDA e : e[1] # key)

\* The keys a Schema cannot be deserialized without, with empty values.
RequiredEntries ==
    << <<"description", JStr("")>>, <<"format", JStr("")>>,
       <<"properties", JObj(<<>>)>>, <<"title", JStr("")>>,
       <<"allOf", JArr(<<>>)>>, <<"oneOf", JArr(<<>>)>>, <<"anyOf", JArr(<<>>)>>,
       <<"enum", JArr(<<>>)>>, <<"pattern", JStr("")>>,
       <<"required", JArr(<<>>)>>, <<"dependentRequired", JObj(<<>>)>> >>

\* A complete Schema whose two maps hold their keys out of alphabetical order.
OrderedEntries ==
    SelectSeq(RequiredEntries, LAMBDA e : e[1] \notin {"properties", "dependentRequired"})
        \o << <<"properties",
                JObj(<< <<"z", JObj(<< <<"$ref", JStr(PATH_REF_PREFIX \o "Pet")>> >>)>>,
                        <<"a", JObj(<< <<"$ref", JStr(PATH_REF_PREFIX)>> >>)>> >>)>>,
               <<"dependentRequired",
                JObj(<< <<"b", JArr(<<>>)>>, <<"a", JArr(<< JStr("b") >>)>> >>)>> >>

\* A complete Schema that carries keys no field is declared for, at its own
\* level and inside the Schema under "items"; the key "x-id" under
\* "properties" is the name of a property.
VendorEntries ==
    << <<"x-foo", JStr("bar")>>, <<"externalDocs", JObj(<<>>)>> >>

NestedVendorEntries ==
    SelectSeq(RequiredEntries, LAMBDA e : e[1] # "properties")
        \o << <<"properties",
                JObj(<< <<"x-id", JObj(<< <<"$ref", JStr(PATH_REF_PREFIX \o "Pet")>> >>)>> >>)>>,
               <<"items", JObj(RequiredEntries \o VendorEntries)>> >>
        \o VendorEntries

SchemaBodies ==
    { <<>>,
      RequiredEntries,
      Without(RequiredEntries, "title"),
      RequiredEntries \o << <<"readOnly", JBool(TRUE)>>, <<"maxLength", JNum(3)>> >>,
      OrderedEntries,
      NestedVendorEntries }

RefValues ==
    { JStr(PATH_REF_PREFIX \o "Pet"), JStr(PATH_REF_PREFIX),
      JStr(PATH_REF_PREFIX \o PATH_REF_PREFIX \o "Pet"),
      JStr("Pet"), JStr(""), JStr("#/components/schemas"),
      JStr("#/components/responses/Pet"), JStr("x" \o PATH_REF_PREFIX \o "Pet"),
      JNum(1), JNull }

RefParts == {<<>>} \cup {<< <<"$ref", x>> >> : x \in RefValues}

ExtraEntries ==
    << <<"x-foo", JStr("bar")>>,
       <<"nullable", JBool(FALSE)>>,
       <<"type", JNum(5)>>,
       <<"items", JObj(<< <<"$ref", JStr("Pet")>> >>)>> >>

Extras(entries) ==
    {Pick(entries, S) : S \in {T \in SUBSET DOMAIN entries : Cardinality(T) <= MaxExtra}}

Objects(refs, bodies, extras) ==
    {JObj(r \o b \o x) : r \in refs, b \in bodies, x \in extras}
        \cup {JObj(b \o x \o r) : r \in refs, b \in bodies, x \in extras}

\* The complete Schema with one of its entries left out.
MissingKeyDocs ==
    {JObj(Without(RequiredEntries, RequiredEntries[i][1])) : i \in DOMAIN RequiredEntries}

SchemaDocs == Objects(RefParts, SchemaBodies, Extras(ExtraEntries)) \cup MissingKeyDocs

ExampleBodies ==
    { <<>>,
      << <<"summary", JStr("s")>> >>,
      << <<"summary", JStr("s")>>, <<"description", JStr("")>> >>,
      << <<"summary", JStr("s")>>, <<"description", JStr("")>>, <<"value", JNum(1)>> >>,
      << <<"summary", JStr("s")>>, <<"description", JStr("")>>,
         <<"externalValue", JStr("http://e")>> >>,
      << <<"summary", JStr("s")>>, <<"description", JStr("d")>>,
         <<"externalValue", JNum(5)>> >> }

ExampleDocs ==
    Objects(RefParts, ExampleBodies, Extras(<< <<"x-foo", JStr("bar")>> >>))

\* Objects over the keys of the two variants of an untagged union.
UnionDocs(key1, values1, key2, values2) ==
    Objects({<<>>} \cup {<< <<key1, x>> >> : x \in values1},
            {<<>>} \cup {<< <<key2, x>> >> : x \in values2},
            Extras(<< <<"x-foo", JStr("bar")>> >>))

ExamplesMaps ==
    { JObj(<<>>),
      JObj(<< <<"a", JObj(<< <<"$ref", JStr("#/components/examples/a")>> >>)>> >>),
      JObj(<< <<"a", JObj(<< <<"summary", JStr("s")>>, <<"description", JStr("")>>,
                            <<"value", JNum(1)>> >>)>> >>),
      JObj(<< <<"a", JObj(<< <<"summary", JStr("s")>> >>)>> >>),
      JObj(<< <<"a", JNum(1)>> >>),
      JStr("bad"), JNull }

SchemaValueDocs ==
    { JObj(<< <<"$ref", JStr(PATH_REF_PREFIX \o "Pet")>> >>),
      JObj(<< <<"$ref", JStr("Pet")>> >>),
      JObj(RequiredEntries), JObj(RequiredEntries \o VendorEntries),
      JObj(<<>>), JStr("x"), JNull }

ContentMaps ==
    { JObj(<<>>),
      JObj(<< <<"application/json", JObj(<< <<"encoding", JObj(<<>>)>> >>)>> >>),
      JObj(<< <<"application/json", JObj(<<>>)>> >>),
      JNum(1), JNull }

\* Parameter objects: the named fields, then the keys of the flattened
\* representation and example.
ParameterBodies ==
    { << <<"name", JStr("id")>>, <<"in", JStr("query")>>, <<"description", JStr("")>> >>,
      << <<"name", JStr("id")>>, <<"in", JStr("path")>>, <<"description", JStr("d")>>,
         <<"required", JBool(TRUE)>>, <<"style", JStr("simple")>> >>,
      << <<"name", JStr("id")>>, <<"in", JStr("cookie")>>, <<"description", JStr("")>> >>,
      << <<"name", JStr("id")>>, <<"in", JStr("query")>> >>,
      << <<"x-foo", JStr("bar")>>, <<"name", JStr("id")>>, <<"in", JStr("header")>>,
         <<"description", JStr("d")>>, <<"x-internal", JBool(TRUE)>> >> }

RepresentationParts ==
    {<<>>} \cup {<< <<"schema", x>> >> : x \in SchemaValueDocs}
           \cup {<< <<"content", x>> >> : x \in ContentMaps}
           \cup {<< <<"schema", JObj(<< <<"$ref", JStr("Pet")>> >>)>>,
                    <<"content", JObj(<<>>)>> >>}

ExampleParts ==
    {<<>>} \cup {<< <<"example", x>> >> : x \in {JNum(1), JNull}}
           \cup {<< <<"examples", x>> >> : x \in ExamplesMaps}

ParameterDocs ==
    {JObj(b \o r \o e) : b \in ParameterBodies, r \in RepresentationParts, e \in ExampleParts}

MediaTypeDocs ==
    {JObj(s \o e \o c) :
        s \in {<<>>} \cup {<< <<"schema", x>> >> : x \in SchemaValueDocs},
        e \in ExampleParts,
        c \in {<<>>, << <<"encoding", JObj(<<>>)>> >>}}

\* OAuth flow objects; the first two are those of the crate's own test.
ScopesDoc ==
    JObj(<< <<"write:pets", JStr("modify pets in your account")>>,
            <<"read:pets", JStr("read your pets")>> >>)

FlowEntries ==
    << <<"implicit",
         JObj(<< <<"authorizationUrl", JStr("https://example.com/api/oauth/dialog")>>,
                 <<"scopes", ScopesDoc>> >>)>>,
       <<"password",
         JObj(<< <<"tokenUrl", JStr("https://example.com")>>, <<"scopes", JObj(<<>>)>> >>)>>,
       <<"clientCredentials",
         JObj(<< <<"tokenUrl", JStr("https://example.com/api/oauth/token")>>,
                 <<"refreshUrl", JStr("https://example.com/api/oauth/refresh")>>,
                 <<"scopes", JObj(<<>>)>> >>)>>,
       <<"authorizationCode",
         JObj(<< <<"authorizationUrl", JStr("https://example.com/api/oauth/dialog")>>,
                 <<"tokenUrl", JStr("https://example.com/api/oauth/token")>>,
                 <<"scopes", ScopesDoc>> >>)>> >>

\* Every slot absent, holding its flow object, or holding null.
FlowsObjects ==
    { JObj(Pick([i \in DOMAIN FlowEntries |->
                    <<FlowEntries[i][1], IF f[i] = "null" THEN JNull ELSE FlowEntries[i][2]>>],
                {i \in DOMAIN FlowEntries : f[i] # "absent"})) :
        f \in [DOMAIN FlowEntries -> {"absent", "flow", "null"}] }

BadFlowsValues ==
    { JObj(<< <<"implicit", JObj(<< <<"authorizationUrl",
                                      JStr("https://example.com/api/oauth/dialog")>> >>)>> >>),
      JObj(<< <<"implicit", JObj(<< <<"authorizationUrl", JStr("/api/oauth/dialog")>>,
                                    <<"scopes", ScopesDoc>> >>)>> >>),
      JObj(<< FlowEntries[1],
              <<"authorizationCode",
                JObj(<< <<"authorizationUrl", JStr("https://example.com/api/oauth/dialog")>>,
                        <<"scopes", ScopesDoc>> >>)>> >>),
      JStr("implicit"), JNull }

\* Flows with undeclared keys beside the slots and inside a flow object.
VendorFlowsValues ==
    { JObj(<< <<"x-foo", JStr("bar")>>,
              <<"implicit", JObj(FlowEntries[1][2].obj \o VendorEntries)>> >>) }

SchemeBodies ==
    { <<>>,
      << <<"name", JStr("api_key")>>, <<"in", JStr("header")>> >>,
      << <<"name", JStr("api_key")>>, <<"x-foo", JStr("bar")>>, <<"in", JStr("header")>>,
         <<"description", JStr("d")>> >>,
      << <<"scheme", JStr("bearer")>>, <<"bearerFormat", JStr("JWT")>> >>,
      << <<"scheme", JStr("basic")>> >>,
      << <<"openIdConnectUrl", JStr("https://example.com/.well-known")>> >> }
        \cup {<< <<"flows", x>> >> : x \in FlowsObjects \cup BadFlowsValues \cup VendorFlowsValues}

SchemeTags ==
    { JStr("apiKey"), JStr("http"), JStr("oauth2"), JStr("openIdConnect"),
      JStr("basic"), JStr("OAuth2"), JStr(""), JNum(2), JNull }

SecuritySchemeDocs ==
    {JObj(b) : b \in SchemeBodies}
        \cup {JObj(<< <<"type", x>> >> \o b) : x \in SchemeTags, b \in SchemeBodies}
        \cup {JObj(b \o << <<"type", x>> >>) : x \in SchemeTags, b \in SchemeBodies}
        \cup {JArr(<< x, y >>) : x \in SchemeTags, y \in FlowsObjects}

\* A ParameterExamples given as a sequence: the fields by position.
ParameterExamplesSequences ==
    { JArr(<<>>), JArr(<< JNum(1) >>), JArr(<< JNull >>), JArr(<< JObj(<<>>) >>),
      JArr(<< JNum(1), JObj(<<>>) >>) }

\* A JSON text that repeats the key "example".
RepeatedExampleDoc ==
    JObj(<< <<"example", JNum(1)>>, <<"example", JNum(2)>>, <<"examples", JObj(<<>>)>> >>)

RuntimeExpressionOrValueDocs ==
    ValueSamples \cup {JStr("$request.path.id"), JNum(2), JBool(TRUE),
                       JArr(<< JStr("a"), JNull >>), JArr(<<>>),
                       JObj(<<>>), JObj(<< <<"k", JStr("v")>> >>)}

LinkDocs ==
    {JObj(o \o p \o b \o d) :
        o \in {<<>>, << <<"operationId", JStr("getPet")>> >>,
               << <<"operationRef", JStr("#/paths/~1pets/get")>> >>},
        p \in {<<>>, << <<"parameters", JObj(<<>>)>> >>,
               << <<"parameters", JObj(<< <<"id", JStr("$request.path.id")>>,
                                         <<"n", JNum(2)>>, <<"z", JNull>> >>)>> >>},
        b \in {<<>>, << <<"requestBody", JStr("v")>> >>, << <<"requestBody", JNull>> >>,
               << <<"requestBody", JObj(<< <<"k", JStr("v")>> >>)>> >>},
        d \in {<<>>, << <<"description", JStr("d")>>, <<"x-foo", JStr("bar")>> >>}}

Docs(name) ==
    CASE name \in {"Schema", "ComponentOrInlineSchema", "ObjectOrReference<Schema>"} -> SchemaDocs
      [] name = "Parameter" -> ParameterDocs
      [] name = "MediaType" -> MediaTypeDocs
      [] name = "SecurityScheme" -> SecuritySchemeDocs
      [] name = "RuntimeExpressionOrValue" -> RuntimeExpressionOrValueDocs
      [] name = "Link" -> LinkDocs
      [] name \in {"ObjectOrReference<Example>", "Example"} -> ExampleDocs
      [] name = "ExampleValue" ->
            UnionDocs("value", ValueSamples \cup {JObj(<<>>)},
                      "externalValue", {JStr("http://e"), JStr(""), JNum(5), JNull})
      [] name = "MediaTypeExample" ->
            UnionDocs("example", ValueSamples, "examples", ExamplesMaps)
      [] name = "ParameterRepresentation" ->
            UnionDocs("schema", SchemaValueDocs, "content", ContentMaps)
      [] name = "ParameterExamples" ->
            UnionDocs("example", ValueSamples, "examples", ExamplesMaps)
                \cup ParameterExamplesSequences \cup {RepeatedExampleDoc}
      [] name = "LinkOperation" ->
            UnionDocs("operationId", {JStr("getPet"), JStr(""), JNum(5), JNull},
                      "operationRef", {JStr("#/paths/~1pets/get"), JNum(5), JNull})

(***************************************************************************)
(* The state machine: a caller either builds a value and serializes it,    *)
(* then reads the output back, or receives a document and deserializes it. *)
(***************************************************************************)
Unset == <<>>

Init ==
    /\ ty \in TypeNames
    /\ result = Unset
    /\ output = Unset
    /\ \/ /\ pc = "built"
          /\ value \in Values(ty)
          /\ json = Unset
       \/ /\ pc = "received"
          /\ json \in Docs(ty)
          /\ value = Unset

\* serde_json::to_value / to_string on a value built in memory
SerializeValue ==
    /\ pc = "built"
    /\ json' = to_value(TypeOf(ty), value)
    /\ pc' = "serialized"
    /\ UNCHANGED <<ty, value, result, output>>

\* serde_json::from_str / from_value on a received document
DeserializeDocument ==
    /\ pc = "received"
    /\ result' = Deserialize(TypeOf(ty), json)
    /\ pc' = "deserialized"
    /\ UNCHANGED <<ty, value, json, output>>

\* reading back the document that SerializeValue produced
DeserializeSerialized ==
    /\ pc = "serialized"
    /\ result' = Deserialize(TypeOf(ty), json)
    /\ pc' = "roundtrip"
    /\ UNCHANGED <<ty, value, json, output>>

\* writing out again the value that DeserializeDocument produced
SerializeDeserialized ==
    /\ pc = "deserialized"
    /\ result.ok
    /\ output' = to_value(TypeOf(ty), result.val)
    /\ pc' = "reserialized"
    /\ UNCHANGED <<ty, value, json, result>>

\* ComponentOrInlineSchema::unwrap on a value built in memory; the outcome
\* is an Option.
Unwrap ==
    /\ pc = "built"
    /\ ty = "ComponentOrInlineSchema"
    /\ result' = unwrap(value)
    /\ pc' = "unwrapped"
    /\ UNCHANGED <<ty, value, json, output>>

Next ==
    \/ SerializeValue
    \/ DeserializeDocument
    \/ DeserializeSerialized
    \/ SerializeDeserialized
    \/ Unwrap

Spec == Init /\ [][Next]_vars

(***************************************************************************)
(* Vocabulary of the properties.                                           *)
(***************************************************************************)
Deserialized(name) == pc = "deserialized" /\ ty = name

HasStringRef(doc) ==
    doc.j = "obj" /\ HasKey(doc.obj, "$ref") /\ Get(doc.obj, "$ref").j = "str"

RefString(doc) == Get(doc.obj, "$ref").str

StartsWith(s, prefix) == Len(s) >= Len(prefix) /\ SubSeq(s, 1, Len(prefix)) = prefix

\* The document holds every entry of a complete inline Schema.
HasCompleteSchema(doc) ==
    \A i \in DOMAIN RequiredEntries :
        \E h \in DOMAIN doc.obj : doc.obj[h] = RequiredEntries[i]

\* The state holds the serialized form of a Schema at the top of json.
SchemaSerialized ==
    /\ pc \in {"serialized", "roundtrip"}
    /\ \/ ty = "Schema"
       \/ ty = "ComponentOrInlineSchema" /\ value.tag = "Inline"

TheSchema == IF ty = "Schema" THEN value ELSE value.Inline

(***************************************************************************)
(* C1: for every value D built in memory, deserializing the serialized     *)
(* form of D succeeds and gives back D.                                    *)
(* Stated as claimed; the code violates it (Schema::default()).            *)
(***************************************************************************)
C1_RoundTrip == pc = "roundtrip" => result = Ok(value)

(***************************************************************************)
(* C2: an ObjectOrReference<T> read from an object that holds "$ref" with  *)
(* a string value is the Ref variant, whatever the sibling keys are.       *)
(* Stated as claimed; the code violates it (siblings complete for T).      *)
(***************************************************************************)
C2_RefWins ==
    (/\ pc = "deserialized"
     /\ ty \in {"ObjectOrReference<Schema>", "ObjectOrReference<Example>"}
     /\ HasStringRef(json))
        => (result.ok /\ result.val.tag = "Ref" /\ result.val.Ref.ref_path = RefString(json))

(***************************************************************************)
(* C3: a ComponentOrInlineSchema read from an object that holds "$ref"     *)
(* with a string starting with "#/components/schemas/" is Component{name}, *)
(* name being the rest of the string; the sibling keys are dropped, also   *)
(* when they form a complete inline Schema.                                *)
(***************************************************************************)
C3_ComponentWins ==
    (/\ Deserialized("ComponentOrInlineSchema")
     /\ HasStringRef(json)
     /\ StartsWith(RefString(json), "#/components/schemas/"))
        => /\ result.ok
           /\ result.val.tag = "Component"
           /\ DOMAIN result.val = {"tag", "Component"}
           /\ DOMAIN result.val.Component = {"name"}
           /\ "#/components/schemas/" \o result.val.Component.name = RefString(json)

C3_Witness ==
    /\ Deserialized("ComponentOrInlineSchema")
    /\ HasStringRef(json)
    /\ RefString(json) = "#/components/schemas/Pet"
    /\ HasCompleteSchema(json)
    /\ result = Ok(Component("Pet"))

(***************************************************************************)
(* C4: a ComponentOrInlineSchema read from an object whose "$ref" is a     *)
(* string that does not start with "#/components/schemas/" fails, whatever *)
(* the other keys are.                                                     *)
(* Stated as claimed; the code violates it (siblings complete for Schema). *)
(***************************************************************************)
C4_BadRefFails ==
    (/\ Deserialized("ComponentOrInlineSchema")
     /\ HasStringRef(json)
     /\ ~StartsWith(RefString(json), "#/components/schemas/"))
        => ~result.ok

(***************************************************************************)
(* C5: serializing Component{name} gives the object whose only entry is    *)
(* "$ref" with the string "#/components/schemas/" followed by name.        *)
(***************************************************************************)
C5_ComponentPath ==
    (/\ pc \in {"serialized", "roundtrip"}
     /\ ty = "ComponentOrInlineSchema"
     /\ value.tag = "Component")
        => /\ json = JObj(<< <<"$ref", JStr("#/components/schemas/" \o value.Component.name)>> >>)
           /\ value.Component.name = "Pet"
                => json = JObj(<< <<"$ref", JStr("#/components/schemas/Pet")>> >>)
           /\ value.Component.name = ""
                => json = JObj(<< <<"$ref", JStr("#/components/schemas/")>> >>)

C5_Witness ==
    /\ pc = "serialized"
    /\ ty = "ComponentOrInlineSchema"
    /\ value = Component("Pet")
    /\ json = JObj(<< <<"$ref", JStr("#/components/schemas/Pet")>> >>)

(***************************************************************************)
(* C6: for every component name n, deserializing the serialized form of    *)
(* Component{n} gives back exactly n, the prefix being stripped once.      *)
(***************************************************************************)
C6_NameRoundTrip ==
    (/\ pc = "roundtrip"
     /\ ty = "ComponentOrInlineSchema"
     /\ value.tag = "Component")
        => /\ result.ok
           /\ result.val.tag = "Component"
           /\ result.val.Component.name = value.Component.name

C6_Witness ==
    /\ pc = "roundtrip"
    /\ ty = "ComponentOrInlineSchema"
    /\ value = Component("#/components/schemas/Pet")
    /\ json = JObj(<< <<"$ref", JStr("#/components/schemas/#/components/schemas/Pet")>> >>)
    /\ result = Ok(value)

(***************************************************************************)
(* C7: a Schema whose nullable flag is Some(false) serializes with the key *)
(* "nullable" holding false, and one whose flag is unset serializes        *)
(* without the key; likewise readOnly, writeOnly and uniqueItems.          *)
(***************************************************************************)
BoolFlags ==
    { <<"nullable", "nullable">>, <<"read_only", "readOnly">>,
      <<"write_only", "writeOnly">>, <<"unique_items", "uniqueItems">> }

C7_FalseIsEmitted ==
    SchemaSerialized =>
        \A f \in BoolFlags :
            /\ TheSchema[f[1]] = Some(FALSE)
                => HasKey(json.obj, f[2]) /\ Get(json.obj, f[2]) = JBool(FALSE)
            /\ TheSchema[f[1]] = None => ~HasKey(json.obj, f[2])

C7_Witness ==
    /\ SchemaSerialized
    /\ TheSchema.nullable = Some(FALSE)
    /\ TheSchema.read_only = None
    /\ HasKey(json.obj, "nullable")
    /\ Get(json.obj, "nullable") = JBool(FALSE)
    /\ ~HasKey(json.obj, "readOnly")

(***************************************************************************)
(* C8: for every field of Schema, the field's key is absent from the       *)
(* serialized form exactly when the field holds its empty value (empty     *)
(* string, empty map, empty sequence, unset optional); false, zero and     *)
(* JSON null inside a set optional are emitted.                            *)
(***************************************************************************)
SchemaKeys ==
    [ description |-> "description", format |-> "format", items |-> "items",
      properties |-> "properties", read_only |-> "readOnly", write_only |-> "writeOnly",
      nullable |-> "nullable", additional_properties |-> "additionalProperties",
      example |-> "example", title |-> "title", default |-> "default",
      all_of |-> "allOf", one_of |-> "oneOf", any_of |-> "anyOf",
      schema_type |-> "type", enum_values |-> "enum", const_value |-> "const",
      multiple_of |-> "multipleOf", minimum |-> "minimum",
      exclusive_minimum |-> "exclusiveMinimum", maximum |-> "maximum",
      exclusive_maximum |-> "exclusiveMaximum", max_length |-> "maxLength",
      min_length |-> "minLength", pattern |-> "pattern", max_items |-> "maxItems",
      min_items |-> "minItems", unique_items |-> "uniqueItems",
      max_properties |-> "maxProperties", min_properties |-> "minProperties",
      required |-> "required", dependent_required |-> "dependentRequired" ]

TextFields == {"description", "format", "title", "pattern"}

IsEmptyValue(name, x) == IF name \in TextFields THEN x = "" ELSE x = <<>>

C8_OmittedIffEmpty ==
    SchemaSerialized =>
        /\ DOMAIN TheSchema = DOMAIN SchemaKeys
        /\ \A n \in DOMAIN SchemaKeys :
              ~HasKey(json.obj, SchemaKeys[n]) <=> IsEmptyValue(n, TheSchema[n])
        /\ \A n \in {"read_only", "write_only", "nullable", "unique_items"} :
              TheSchema[n] = Some(FALSE) => HasKey(json.obj, SchemaKeys[n])
        /\ \A n \in {"max_length", "min_length", "max_items", "min_items",
                     "max_properties", "min_properties"} :
              TheSchema[n] = Some(0) => Get(json.obj, SchemaKeys[n]) = JNum(0)
        /\ \A n \in {"example", "default", "const_value", "multiple_of", "minimum",
                     "exclusive_minimum", "maximum", "exclusive_maximum"} :
              TheSchema[n] = Some(JNull) => Get(json.obj, SchemaKeys[n]) = JNull

C8_Witness ==
    /\ SchemaSerialized
    /\ TheSchema.example = Some(JNull)
    /\ TheSchema.title = ""
    /\ HasKey(json.obj, "example")
    /\ Get(json.obj, "example") = JNull
    /\ ~HasKey(json.obj, "title")

(***************************************************************************)
(* C9: an ExampleValue read from an object with only the key "value" is    *)
(* Embedded, from an object with only the key "externalValue" is External  *)
(* (the key holding a string; any other value is an error), and from an    *)
(* object with neither key is an error.                                    *)
(***************************************************************************)
C9_ExampleValueVariant ==
    Deserialized("ExampleValue") =>
        LET hasValue == HasKey(json.obj, "value")
            hasExternal == HasKey(json.obj, "externalValue")
        IN  /\ (hasValue /\ ~hasExternal)
                => /\ result.ok
                   /\ result.val.tag = "Embedded"
                   /\ result.val.Embedded.value = Get(json.obj, "value")
            /\ (~hasValue /\ hasExternal /\ Get(json.obj, "externalValue").j = "str")
                => /\ result.ok
                   /\ result.val.tag = "External"
                   /\ result.val.External.external_value = Get(json.obj, "externalValue").str
            /\ (~hasValue /\ hasExternal /\ Get(json.obj, "externalValue").j # "str")
                => ~result.ok
            /\ (~hasValue /\ ~hasExternal) => ~result.ok

C9_Witness ==
    /\ Deserialized("ExampleValue")
    /\ json = JObj(<< <<"externalValue", JStr("http://e")>> >>)
    /\ result = Ok(Variant("External", [external_value |-> "http://e"]))

(***************************************************************************)
(* C10: each of the five untagged unions is read as the first declared     *)
(* variant whose required keys are all present: the first variant when the *)
(* keys of both are present, and an error when no variant has its keys.    *)
(* Stated as claimed; the code violates it (it falls through to the second *)
(* variant when the first one's key holds a value of the wrong type).      *)
(***************************************************************************)
UnionVariants ==
    [ ExampleValue |-> << <<"Embedded", {"value"}>>, <<"External", {"externalValue"}>> >>,
      MediaTypeExample |-> << <<"Example", {"example"}>>, <<"Examples", {"examples"}>> >>,
      ParameterRepresentation |-> << <<"Simple", {"schema"}>>, <<"Content", {"content"}>> >>,
      ParameterExamples |-> << <<"One", {}>>, <<"Multiple", {"examples"}>> >>,
      LinkOperation |-> << <<"Id", {"operationId"}>>, <<"Ref", {"operationRef"}>> >> ]

KeysPresent(doc, keys) == \A key \in keys : HasKey(doc.obj, key)

C10_FirstVariantWithKeys ==
    (pc = "deserialized" /\ ty \in DOMAIN UnionVariants /\ json.j = "obj") =>
        LET first == UnionVariants[ty][1]
            second == UnionVariants[ty][2]
        IN  /\ KeysPresent(json, first[2]) => (result.ok => result.val.tag = first[1])
            /\ (~KeysPresent(json, first[2]) /\ KeysPresent(json, second[2]))
                => (result.ok => result.val.tag = second[1])
            /\ (~KeysPresent(json, first[2]) /\ ~KeysPresent(json, second[2])) => ~result.ok

(***************************************************************************)
(* C11: in each of the five untagged unions the required keys of the two   *)
(* variants differ and do not intersect, and an object that holds only the *)
(* second variant's key (with a value of that key's type) is read as the   *)
(* second variant.                                                         *)
(* Stated as claimed; the code violates it (ParameterExamples reads        *)
(* {"examples": ...} as One, whose only key is optional).                  *)
(***************************************************************************)
RequiredKeys(variant) ==
    {variant.fields[i].key : i \in {h \in DOMAIN variant.fields : ~MayBeMissing(variant.fields[h])}}

C11_SecondVariantByKey ==
    (pc = "deserialized" /\ ty \in DOMAIN UnionVariants /\ json.j = "obj") =>
        LET first == TypeOf(ty).variants[1]
            second == TypeOf(ty).variants[2]
            key == second.fields[1].key
        IN  /\ RequiredKeys(first) # RequiredKeys(second)
            /\ RequiredKeys(first) \cap RequiredKeys(second) = {}
            /\ (/\ Len(json.obj) = 1
                /\ json.obj[1][1] = key
                /\ Deserialize(second.fields[1].ty, json.obj[1][2]).ok)
                    => (result.ok /\ result.val.tag = second.name)

(***************************************************************************)
(* C12: a SecurityScheme read from an object tagged "oauth2" is OAuth2,    *)
(* and each of its four flow slots is set exactly when the slot's key is   *)
(* present under "flows" with a flow object (a key holding null counts as  *)
(* absent): with only "implicit" the three others are unset, and with      *)
(* "implicit" and "authorizationCode" both hold the URLs and the scopes of *)
(* the document.                                                           *)
(***************************************************************************)
FlowSlots ==
    { <<"implicit", "implicit">>, <<"password", "password">>,
      <<"client_credentials", "clientCredentials">>,
      <<"authorization_code", "authorizationCode">> }

ImplicitGiven ==
    [authorization_url |-> "https://example.com/api/oauth/dialog",
     refresh_url |-> None, scopes |-> ScopesGiven]

AuthorizationCodeGiven ==
    [authorization_url |-> "https://example.com/api/oauth/dialog",
     token_url |-> "https://example.com/api/oauth/token",
     refresh_url |-> None, scopes |-> ScopesGiven]

\* An object tagged "oauth2" whose "flows" holds flow objects or nulls.
OAuth2Document ==
    /\ pc \in {"deserialized", "reserialized"}
    /\ ty = "SecurityScheme"
    /\ json.j = "obj"
    /\ HasKey(json.obj, "type") /\ Get(json.obj, "type") = JStr("oauth2")
    /\ HasKey(json.obj, "flows") /\ Get(json.obj, "flows") \in FlowsObjects

FlowGiven(key) ==
    LET flows == Get(json.obj, "flows").obj
    IN  HasKey(flows, key) /\ Get(flows, key) # JNull

C12_FlowSlots ==
    OAuth2Document =>
        /\ result.ok
        /\ result.val.tag = "OAuth2"
        /\ \A slot \in FlowSlots :
              result.val.OAuth2.flows[slot[1]] # None <=> FlowGiven(slot[2])
        /\ FlowGiven("implicit") => result.val.OAuth2.flows.implicit = Some(ImplicitGiven)
        /\ FlowGiven("authorizationCode")
              => result.val.OAuth2.flows.authorization_code = Some(AuthorizationCodeGiven)

C12_Witness ==
    /\ OAuth2Document
    /\ Len(Get(json.obj, "flows").obj) = 2
    /\ FlowGiven("implicit") /\ FlowGiven("authorizationCode")
    /\ result.ok
    /\ result.val.OAuth2.flows.implicit = Some(ImplicitGiven)
    /\ result.val.OAuth2.flows.authorization_code = Some(AuthorizationCodeGiven)
    /\ result.val.OAuth2.flows.password = None
    /\ result.val.OAuth2.flows.client_credentials = None

(***************************************************************************)
(* C13: reading a SecurityScheme fails when the tag "type" is absent and   *)
(* when its value is not one of "apiKey", "http", "oauth2",                *)
(* "openIdConnect"; a variant is only ever produced for the tag that names *)
(* it.  (In a sequence the tag is the first element.)                      *)
(***************************************************************************)
SchemeTagNames ==
    [ apiKey |-> "ApiKey", http |-> "Http", oauth2 |-> "OAuth2",
      openIdConnect |-> "OpenIdConnect" ]

\* The tag the document gives: a one-element sequence, or empty if none.
TagGiven(doc) ==
    IF doc.j = "obj" /\ HasKey(doc.obj, "type") THEN << Get(doc.obj, "type") >>
    ELSE IF doc.j = "arr" /\ Len(doc.arr) > 0 THEN << doc.arr[1] >>
    ELSE <<>>

TagRecognized(doc) ==
    /\ TagGiven(doc) # <<>>
    /\ TagGiven(doc)[1].j = "str"
    /\ TagGiven(doc)[1].str \in DOMAIN SchemeTagNames

NestedNodes ==
    [ Parameter |-> { <<"schema", ComponentOrInlineSchema>>,
                      <<"content", TMap(MediaType)>>,
                      <<"examples", TMap(ObjectOrReference(Example))>> },
      MediaType |-> { <<"schema", TOpt(ComponentOrInlineSchema)>>,
                      <<"examples", TMap(ObjectOrReference(Example))>> } ]

NodeFails(doc, node) ==
    HasKey(doc.obj, node[1]) /\ ~Deserialize(node[2], Get(doc.obj, node[1])).ok

C14_AllOrNothing ==
    (pc \in {"deserialized", "reserialized"} /\ ty \in DOMAIN NestedNodes) =>
        ((\E node \in NestedNodes[ty] : NodeFails(json, node)) => ~result.ok)

(***************************************************************************)
(* C15: for every document B without vendor-extension ("x-") keys that is  *)
(* read successfully, writing the value read gives a document with exactly *)
(* the keys and values of B at every node, the entries of "properties" and *)
(* "dependentRequired" in the order of B.                                  *)
(* Stated as claimed; the code violates it (keys holding empty values are  *)
(* dropped, unknown keys are dropped, "example": null is added).           *)
(***************************************************************************)
RECURSIVE NoVendorKeys(_)
NoVendorKeys(doc) ==
    CASE doc.j = "obj" ->
            \A i \in DOMAIN doc.obj :
                ~StartsWith(doc.obj[i][1], "x-") /\ NoVendorKeys(doc.obj[i][2])
      [] doc.j = "arr" -> \A i \in DOMAIN doc.arr : NoVendorKeys(doc.arr[i])
      [] OTHER -> TRUE

OrderedMaps == {"properties", "dependentRequired"}

Keys(es) == [i \in DOMAIN es |-> es[i][1]]

\* The same keys and values at every node; the same order of entries too
\* where ordered is set and under the keys of OrderedMaps.
RECURSIVE SameDocument(_, _, _)
SameDocument(a, b, ordered) ==
    /\ a.j = b.j
    /\ CASE a.j = "obj" ->
                /\ Len(a.obj) = Len(b.obj)
                /\ ordered => Keys(a.obj) = Keys(b.obj)
                /\ \A i \in DOMAIN a.obj :
                      /\ HasKey(b.obj, a.obj[i][1])
                      /\ FirstIdx(a.obj, a.obj[i][1]) = i
                      /\ SameDocument(a.obj[i][2], Get(b.obj, a.obj[i][1]),
                                      a.obj[i][1] \in OrderedMaps)
         [] a.j = "arr" ->
                /\ Len(a.arr) = Len(b.arr)
                /\ \A i \in DOMAIN a.arr : SameDocument(a.arr[i], b.arr[i], FALSE)
         [] OTHER -> a = b

C15_SameDocument ==
    (pc = "reserialized" /\ NoVendorKeys(json)) => SameDocument(json, output, FALSE)

(***************************************************************************)
(* C16: the properties map and the dependentRequired map of a Schema keep  *)
(* the order of their entries: reading stores the entries in the order of  *)
(* the document, also when the Schema is read through an untagged          *)
(* indirection, and writing emits them in the order stored, never sorted.  *)
(***************************************************************************)
MapFields == { <<"properties", "properties">>, <<"dependent_required", "dependentRequired">> }

\* The state holds a Schema read from json, directly or as the inline
\* variant of an indirection.
SchemaRead ==
    /\ pc \in {"deserialized", "reserialized"}
    /\ result.ok
    /\ \/ ty = "Schema"
       \/ ty = "ComponentOrInlineSchema" /\ result.val.tag = "Inline"
       \/ ty = "ObjectOrReference<Schema>" /\ result.val.tag = "Object"

TheSchemaRead ==
    IF ty = "Schema" THEN result.val ELSE result.val[result.val.tag]

C16_OrderKept ==
    /\ SchemaRead =>
          \A m \in MapFields : Keys(TheSchemaRead[m[1]]) = Keys(Get(json.obj, m[2]).obj)
    /\ (SchemaRead /\ pc = "reserialized") =>
          \A m \in MapFields :
              TheSchemaRead[m[1]] # <<>>
                  => Keys(Get(output.obj, m[2]).obj) = Keys(Get(json.obj, m[2]).obj)
    /\ SchemaSerialized =>
          \A m \in MapFields :
              TheSchema[m[1]] # <<>> => Keys(Get(json.obj, m[2]).obj) = Keys(TheSchema[m[1]])

C16_Witness ==
    /\ SchemaRead
    /\ pc = "reserialized"
    /\ ty = "ComponentOrInlineSchema"
    /\ Keys(Get(json.obj, "properties").obj) = << "z", "a" >>
    /\ Keys(TheSchemaRead.properties) = << "z", "a" >>
    /\ Keys(TheSchemaRead.dependent_required) = << "b", "a" >>
    /\ Keys(Get(output.obj, "properties").obj) = << "z", "a" >>
    /\ Keys(Get(output.obj, "dependentRequired").obj) = << "b", "a" >>

(***************************************************************************)
(* C17: writing an indirection gives, for a reference, the object whose    *)
(* single entry is "$ref" with the pointer string, and for an inline value *)
(* exactly the entries the value gives when written on its own, with no    *)
(* wrapper key and no "$ref"; for ObjectOrReference<T> and for             *)
(* ComponentOrInlineSchema.                                                *)
(***************************************************************************)
IndirectionSerialized ==
    /\ pc \in {"serialized", "roundtrip"}
    /\ ty \in {"ComponentOrInlineSchema", "ObjectOrReference<Schema>"}

C17_IndirectionShape ==
    IndirectionSerialized =>
        /\ value.tag = "Ref" => json = JObj(<< <<"$ref", JStr(value.Ref.ref_path)>> >>)
        /\ value.tag = "Component"
              => /\ json.j = "obj"
                 /\ Keys(json.obj) = << "$ref" >>
                 /\ json.obj[1][2].j = "str"
        /\ value.tag \in {"Inline", "Object"}
              => /\ json = Serialize(Schema, value[value.tag])
                 /\ \A i \in DOMAIN json.obj :
                       /\ json.obj[i][1] \notin {"$ref", "Inline", "Object"}
                       /\ \E n \in DOMAIN SchemaKeys : SchemaKeys[n] = json.obj[i][1]

C17_Witness ==
    /\ IndirectionSerialized
    /\ ty = "ObjectOrReference<Schema>"
    /\ value = Object(FullSchema)
    /\ Keys(json.obj) = << "description", "format", "properties", "title", "allOf",
                           "oneOf", "anyOf", "enum", "pattern", "required",
                           "dependentRequired" >>

(***************************************************************************)
(* C18: a Schema whose items chain nests five levels deep (every level an  *)
(* inline Schema, the innermost one inline or a component reference) is    *)
(* written and read back to an equal value, all five levels present.       *)
(* Stated as claimed; the code violates it (a level that leaves a text or  *)
(* collection field empty is written without that key and cannot be read). *)
(***************************************************************************)
RECURSIVE ItemsDepth(_)
ItemsDepth(s) ==
    IF s.items = None THEN 0
    ELSE IF s.items[1].tag = "Component" THEN 1
    ELSE 1 + ItemsDepth(s.items[1].Inline)

C18_DeepItemsRoundTrip ==
    (pc = "roundtrip" /\ ty = "Schema" /\ ItemsDepth(value) >= 5)
        => /\ result = Ok(value)
           /\ ItemsDepth(result.val) = ItemsDepth(value)

(***************************************************************************)
(* C19: writing and reading enforce a maximum nesting depth: there is a    *)
(* bound N such that a schema nested deeper than N is refused rather than  *)
(* recursed into, so that no document written and no value read ever holds *)
(* more than N levels.  (The levels counted are those of the items chain;  *)
(* N ranges below the depth of the chains built.)                          *)
(* Stated as claimed; the code violates it (the derived code recurses      *)
(* through every level it is given and keeps no count).                    *)
(***************************************************************************)
RECURSIVE DocItemsDepth(_)
DocItemsDepth(doc) ==
    IF doc.j = "obj" /\ HasKey(doc.obj, "items")
    THEN 1 + DocItemsDepth(Get(doc.obj, "items"))
    ELSE 0

DepthBound(N) ==
    /\ (pc \in {"serialized", "roundtrip"} /\ ty = "Schema") => DocItemsDepth(json) <= N
    /\ (pc = "roundtrip" /\ ty = "Schema" /\ result.ok) => ItemsDepth(result.val) <= N

\* A bound that holds for N holds for every larger N, so some N below
\* ItemsLevels bounds every state exactly when each state has such an N.
C19_DepthEnforced == \E N \in 0..(ItemsLevels - 1) : DepthBound(N)

(***************************************************************************)
(* C20: every call to write or read ends with its outcome (a call is one   *)
(* step, so a call that has been made has returned a document, a value or  *)
(* an error), and the value read nests exactly as deep as the document it  *)
(* was read from: one level per level of the input.  A component reference *)
(* is kept as its name and is not followed: it ends the chain at its own   *)
(* level, whatever the name refers to.                                     *)
(***************************************************************************)
JsonKinds == {"null", "bool", "num", "str", "arr", "obj"}

CallEnded ==
    /\ pc \in {"serialized", "roundtrip"} => json.j \in JsonKinds
    /\ pc \in {"deserialized", "roundtrip", "reserialized"} => result.ok \in BOOLEAN
    /\ pc = "reserialized" => output.j \in JsonKinds

\* The items chain of the document ends in a reference.
RECURSIVE EndsInReference(_)
EndsInReference(doc) ==
    /\ doc.j = "obj"
    /\ IF HasKey(doc.obj, "items") THEN EndsInReference(Get(doc.obj, "items"))
       ELSE HasKey(doc.obj, "$ref")

RECURSIVE InnermostItems(_)
InnermostItems(s) ==
    IF s.items = None THEN <<>>
    ELSE IF s.items[1].tag = "Component" THEN << s.items[1] >>
    ELSE InnermostItems(s.items[1].Inline)

DepthFollowsInput ==
    (pc = "roundtrip" /\ ty = "Schema" /\ result.ok) =>
        /\ ItemsDepth(result.val) = DocItemsDepth(json)
        /\ EndsInReference(json) =>
              /\ InnermostItems(result.val) # <<>>
              /\ DOMAIN InnermostItems(result.val)[1].Component = {"name"}

RECURSIVE FieldsOf(_)
RECURSIVE FieldsFrom(_, _)
RECURSIVE VariantFieldsFrom(_, _)

\* The fields whose keys an object of the type may hold at its own level:
\* those of a flattened field and of every variant included.
FieldsFrom(fields, n) ==
    IF n > Len(fields) THEN <<>>
    ELSE (IF fields[n].flatten THEN FieldsOf(fields[n].ty) ELSE << fields[n] >>)
            \o FieldsFrom(fields, n + 1)

VariantFieldsFrom(variants, n) ==
    IF n > Len(variants) THEN <<>>
    ELSE (IF variants[n].shape = "newtype" THEN FieldsOf(variants[n].ty)
          ELSE variants[n].fields)
            \o VariantFieldsFrom(variants, n + 1)

FieldsOf(t0) ==
    LET t == Resolve(t0) IN
    CASE t.k = "struct" -> FieldsFrom(t.fields, 1)
      [] t.k = "opt" -> FieldsOf(t.of)
      [] t.k = "untagged" -> VariantFieldsFrom(t.variants, 1)
      [] t.k = "tagged" -> << Field(t.tag, t.tag, TStr, "") >> \o VariantFieldsFrom(t.variants, 1)
      [] OTHER -> <<>>

\* The document without the keys no field is declared for.
RECURSIVE StripVendor(_, _)
StripVendor(t0, doc) ==
    LET t == Resolve(t0)
        declared == FieldsOf(t)
        withKey(key) == {i \in DOMAIN declared : declared[i].key = key}
    IN
    CASE t.k \in {"struct", "untagged", "tagged"} /\ doc.j = "obj" /\ declared # <<>> ->
            LET kept == SelectSeq(doc.obj, LAMBDA e : withKey(e[1]) # {})
            IN  JObj([i \in DOMAIN kept |->
                        <<kept[i][1],
                          StripVendor(declared[Min(withKey(kept[i][1]))].ty, kept[i][2])>>])
      [] t.k = "opt" -> StripVendor(t.of, doc)
      [] t.k = "vec" /\ doc.j = "arr" ->
            JArr([i \in DOMAIN doc.arr |-> StripVendor(t.of, doc.arr[i])])
      [] t.k = "map" /\ doc.j = "obj" ->
            JObj([i \in DOMAIN doc.obj |-> <<doc.obj[i][1], StripVendor(t.of, doc.obj[i][2])>>])
      [] OTHER -> doc

C21_VendorKeysIgnored ==
    /\ pc \in {"deserialized", "reserialized"}
          => result = Deserialize(TypeOf(ty), StripVendor(TypeOf(ty), json))
    /\ pc = "reserialized" => StripVendor(TypeOf(ty), output) = output
    /\ pc \in {"serialized", "roundtrip"} => StripVendor(TypeOf(ty), json) = json

C21_Witness ==
    /\ pc = "reserialized"
    /\ ty = "Schema"
    /\ json = JObj(NestedVendorEntries)
    /\ StripVendor(Schema, json) # json
    /\ result.ok
    /\ result.val.items # None
    /\ result.val.items[1].tag = "Inline"
    /\ Keys(result.val.properties) = << "x-id" >>
    /\ Keys(output.obj) = << "items", "properties" >>
    /\ Get(output.obj, "items") = JObj(<<>>)

(***************************************************************************)
(* C22: when an indirection is read from an object without the key "$ref"  *)
(* and a field of T cannot be read (its key is missing, or its value has   *)
(* the wrong type), reading fails with an error that names that field.     *)
(* Stated as claimed; the code violates it (the error of an untagged enum  *)
(* is the same for every cause and names the enum only).                   *)
(***************************************************************************)
IndirectionTarget(name) ==
    CASE name = "ComponentOrInlineSchema" -> Schema
      [] name = "ObjectOrReference<Schema>" -> Schema
      [] name = "ObjectOrReference<Example>" -> Example

\* The keys of the fields of the struct that the object gives no readable
\* value for.
FailingFields(t, doc) ==
    { t.fields[i].key :
        i \in {h \in DOMAIN t.fields :
                /\ ~t.fields[h].flatten
                /\ IF HasKey(doc.obj, t.fields[h].key)
                   THEN ~DeserializeField(t.fields[h], Get(doc.obj, t.fields[h].key)).ok
                   ELSE ~MayBeMissing(t.fields[h])} }

C22_ErrorNamesField ==
    (/\ pc = "deserialized"
     /\ ty \in {"ComponentOrInlineSchema", "ObjectOrReference<Schema>",
                "ObjectOrReference<Example>"}
     /\ json.j = "obj"
     /\ ~HasKey(json.obj, "$ref")
     /\ FailingFields(IndirectionTarget(ty), json) # {})
        => /\ ~result.ok
           /\ result.at \in FailingFields(IndirectionTarget(ty), json)

(***************************************************************************)
(* C23: the variant of a SecurityScheme read from an object is decided by  *)
(* the value of "type" alone: when a key that the variant named by the tag *)
(* requires is absent (type "apiKey" with only "flows", type "http"        *)
(* without "bearerFormat"), reading fails, also when the keys present are  *)
(* those of another variant; a value read holds the fields of the variant  *)
(* the tag names and no others.                                            *)
(***************************************************************************)
TaggedVariantOf(doc) ==
    LET tag == Get(doc.obj, "type").str
    IN  SecurityScheme.variants[
            CHOOSE i \in DOMAIN SecurityScheme.variants :
                SecurityScheme.variants[i].rename = tag]

\* The keys present are those another variant of the enum needs.
FitsAnotherVariant(doc) ==
    \E i \in DOMAIN SecurityScheme.variants :
        /\ SecurityScheme.variants[i] # TaggedVariantOf(doc)
        /\ DeserializeStructMap(SecurityScheme.variants[i].fields, Without(doc.obj, "type")).ok

C23_TagAloneDecides ==
    (/\ pc \in {"deserialized", "reserialized"}
     /\ ty = "SecurityScheme"
     /\ json.j = "obj"
     /\ TagRecognized(json))
        => LET variant == TaggedVariantOf(json)
           IN  /\ (\E key \in RequiredKeys(variant) : ~HasKey(json.obj, key)) => ~result.ok
               /\ result.ok =>
                    /\ result.val.tag = variant.name
                    /\ DOMAIN result.val = {"tag", variant.name}
                    /\ DOMAIN result.val[variant.name] = FieldNames(variant.fields)

C23_Witness ==
    /\ Deserialized("SecurityScheme")
    /\ json = JObj(<< <<"type", JStr("apiKey")>>, <<"flows", JObj(<< FlowEntries[1] >>)>> >>)
    /\ FitsAnotherVariant(json)
    /\ ~result.ok
    /\ result.err = "missing field"
    /\ result.at = "name"

(***************************************************************************)
(* C24: a Parameter whose "in" is one of the four documented locations     *)
(* "query", "header", "path" and "cookie" (its other keys being readable)  *)
(* is read successfully, and writing it gives "in" with the same string.   *)
(* Stated as claimed; the code violates it (Location has no variant named  *)
(* "cookie"; its fourth variant is "formData").                            *)
(***************************************************************************)
DocumentedLocations == {"query", "header", "path", "cookie"}

\* A Parameter object whose named fields other than "in" can be read.
ReadableParameter(doc) ==
    /\ doc.j = "obj"
    /\ \A key \in {"name", "in", "description"} :
          HasKey(doc.obj, key) /\ Get(doc.obj, key).j = "str"

C24_DocumentedLocations ==
    (/\ pc \in {"deserialized", "reserialized"}
     /\ ty = "Parameter"
     /\ ReadableParameter(json)
     /\ Get(json.obj, "in").str \in DocumentedLocations)
        => /\ result.ok
           /\ pc = "reserialized" => Get(output.obj, "in") = Get(json.obj, "in")

(***************************************************************************)
(* C25: writing never fails: for every value built in memory (each variant *)
(* of each union, fields set and unset) and for every value read from a    *)
(* document, the call returns a JSON structure and no error, at the top    *)
(* and at every node below it.                                             *)
(***************************************************************************)
C25_EncodeNeverFails ==
    /\ pc \in {"serialized", "roundtrip"}
          => /\ json.j # "error"
             /\ Errors(json) = {}
             /\ json = Serialize(TypeOf(ty), value)
    /\ pc = "reserialized"
          => /\ output.j # "error"
             /\ Errors(output) = {}
             /\ output = Serialize(TypeOf(ty), result.val)

\* A Parameter with both flattened unions set is written as one object.
C25_Witness ==
    /\ pc = "serialized"
    /\ ty = "Parameter"
    /\ value.representation = Some(Variant("Simple", [schema |-> Component("Pet")]))
    /\ value.example = Some(Variant("Multiple", [examples |-> << <<"b", Object(FullExample)>>, <<"a", Ref("#/components/examples/a")>> >>]))
    /\ Keys(json.obj) = << "name", "in", "description", "schema", "examples" >>
    /\ Keys(Get(json.obj, "examples").obj) = << "b", "a" >>

(***************************************************************************)
(* C26: unwrap returns the contained Schema exactly when the value is      *)
(* Inline and returns nothing for every Component, whatever its name: a    *)
(* component reference is never resolved to a schema, neither at the top   *)
(* nor inside the Schema returned; and the call leaves the value as it     *)
(* was.                                                                    *)
(***************************************************************************)
UnwrapOutcome ==
    pc = "unwrapped" =>
        /\ value.tag \in {"Inline", "Component"}
        /\ value.tag = "Inline" => result = Some(value.Inline)
        /\ value.tag = "Component" => result = None
        /\ result # None <=> value.tag = "Inline"

C26_UnwrapInlineOnly == []UnwrapOutcome /\ [][Unwrap => value' = value]_vars

C26_Witness ==
    /\ pc = "unwrapped"
    /\ value.tag = "Inline"
    /\ value.Inline.items = Some(Component("Pet"))
    /\ result = Some(value.Inline)
    /\ result[1].items = Some(Component("Pet"))

(***************************************************************************)
(* C27: an object is read as an inline Schema only if it holds every one   *)
(* of the keys description, format, properties, title, allOf, oneOf,       *)
(* anyOf, enum, pattern, required and dependentRequired: reading a Schema  *)
(* from an object that lacks one of them fails, and no indirection read    *)
(* from such an object is the inline variant.  Every other field is an     *)
(* Option: its key may be absent, and the field is then unset.             *)
(***************************************************************************)
InlineRequiredKeys ==
    {"description", "format", "properties", "title", "allOf", "oneOf", "anyOf", "enum",
     "pattern", "required", "dependentRequired"}

OptionFields == {i \in DOMAIN Schema.fields : Resolve(Schema.fields[i].ty).k = "opt"}

LacksRequiredKey(doc) == \E key \in InlineRequiredKeys : ~HasKey(doc.obj, key)

C27_InlineRequiredKeys ==
    /\ {Schema.fields[i].key : i \in OptionFields} \cap InlineRequiredKeys = {}
    /\ {Schema.fields[i].key : i \in DOMAIN Schema.fields \ OptionFields} = InlineRequiredKeys
    /\ (pc \in {"deserialized", "reserialized"} /\ ty = "Schema" /\ json.j = "obj"
            /\ LacksRequiredKey(json))
          => ~result.ok
    /\ (SchemaRead /\ json.j = "obj")
          => /\ ~LacksRequiredKey(json)
             /\ \A i \in OptionFields :
                   ~HasKey(json.obj, Schema.fields[i].key)
                        => TheSchemaRead[Schema.fields[i].name] = None

C27_Witness ==
    /\ Deserialized("Schema")
    /\ json = JObj(Without(RequiredEntries, "pattern"))
    /\ LacksRequiredKey(json)
    /\ result = Err("missing field", "pattern")

(***************************************************************************)
(* C28: reading a ParameterExamples never gives Multiple: every object     *)
(* (a keyed structure, each key held once), also one whose only key is     *)
(* "examples", is read as One, whose example is unset when the key         *)
(* "example" is absent; a sequence is read as One or not at all.  Hence    *)
(* Multiple{examples} written and read back is One and not the value       *)
(* written; likewise for the flattened example of a Parameter.             *)
(***************************************************************************)
DistinctKeys(doc) ==
    doc.j = "obj" => \A i, h \in DOMAIN doc.obj : doc.obj[i][1] = doc.obj[h][1] => i = h

\* Option<Value>: the key absent or holding null is None.
ExampleGiven(doc) ==
    IF HasKey(doc.obj, "example") /\ Get(doc.obj, "example") # JNull
    THEN Some(Get(doc.obj, "example"))
    ELSE None

FlattenedUnion(name) ==
    CASE name = "Example" -> <<"value", ExampleValue>>
      [] name = "MediaType" -> <<"examples", MediaTypeExample>>
      [] name = "Parameter" -> <<"representation", ParameterRepresentation>>

\* The keys of the variants of the union.
VariantKeys(union) ==
    UNION {RequiredKeys(union.variants[i]) : i \in DOMAIN union.variants}

\* The entries that no named field of the struct takes.
Collected(t, doc) == SelectSeq(doc.obj, LAMBDA e : FieldIdx(t.fields, e[1]) = {})

C29_FlattenedUnionUnset ==
    (/\ pc \in {"deserialized", "reserialized"}
     /\ ty \in {"Example", "MediaType", "Parameter"}
     /\ json.j = "obj"
     /\ FailingFields(TypeOf(ty), json) = {})
        => LET field == FlattenedUnion(ty)[1]
               union == FlattenedUnion(ty)[2]
               inner == Deserialize(union, JObj(Collected(TypeOf(ty), json)))
           IN  /\ result.ok
               /\ (\A key \in VariantKeys(union) : ~HasKey(json.obj, key))
                     => result.val[field] = None
               /\ ~inner.ok => result.val[field] = None
               /\ inner.ok => result.val[field] = Some(inner.val)

\* The key of a variant is present and its value cannot be read.
C29_Witness ==
    /\ Deserialized("Parameter")
    /\ json = JObj(<< <<"name", JStr("id")>>, <<"in", JStr("query")>>,
                      <<"description", JStr("")>>,
                      <<"schema", JObj(<< <<"$ref", JStr("Pet")>> >>)>> >>)
    /\ ~Deserialize(ComponentOrInlineSchema, Get(json.obj, "schema")).ok
    /\ result.ok
    /\ result.val.representation = None

(***************************************************************************)
(* C30: a RuntimeExpressionOrValue read from a JSON string is              *)
(* RuntimeExpression and read from any other JSON value is LiteralValue.   *)
(* Hence LiteralValue holding a string, written and read back, is          *)
(* RuntimeExpression of that string and not the value written, while every *)
(* other value of the type is read back as it was; likewise for the        *)
(* parameters of a Link.                                                   *)
(***************************************************************************)
HoldsString(v) == v.tag = "LiteralValue" /\ v.LiteralValue.j = "str"

\* What reading gives for the written form of a value.
Reread(v) == IF HoldsString(v) THEN RuntimeExpression(v.LiteralValue.str) ELSE v

C30_StringIsExpression ==
    /\ (pc \in {"deserialized", "reserialized"} /\ ty = "RuntimeExpressionOrValue")
          => /\ json.j = "str" => result = Ok(RuntimeExpression(json.str))
             /\ json.j # "str" => result = Ok(LiteralValue(json))
    /\ (pc = "roundtrip" /\ ty = "RuntimeExpressionOrValue")
          => /\ result = Ok(Reread(value))
             /\ HoldsString(value) => result # Ok(value)
             /\ ~HoldsString(value) => result = Ok(value)
    /\ (pc = "roundtrip" /\ ty = "Link" /\ result.ok)
          => /\ Keys(result.val.parameters) = Keys(value.parameters)
             /\ \A i \in DOMAIN value.parameters :
                   result.val.parameters[i][2] = Reread(value.parameters[i][2])

C30_Witness ==
    /\ pc = "roundtrip"
    /\ ty = "RuntimeExpressionOrValue"
    /\ value = LiteralValue(JStr("v"))
    /\ json = JStr("v")
    /\ result = Ok(RuntimeExpression("v"))

====
